---- MODULE Spec2Model ----
(***************************************************************************)
(* A model of the ak2md conversion pipeline (hvishwanath/ak2md).           *)
(*                                                                         *)
(*   SpecWorkflow : Workflow.run / WorkflowStage.execute / main            *)
(*                  (src/main.py, src/workflow/base.py)                    *)
(*   SpecPreDir   : PreProcessDirectory.execute                            *)
(*                  (src/workflow/processors/directory.py)                 *)
(*   SpecPreFile  : PreProcessFile.execute, execute_step, write_file       *)
(*                  (src/workflow/processors/base.py, src/utils.py)        *)
(*   SpecPost     : PostProcessStage over ProcessDocVersion and            *)
(*                  ProcessDocSection (src/workflow/stages.py,             *)
(*                  src/workflow/processors/doc_version.py, doc_section.py)*)
(*   SpecSpecial  : ProcessSpecialFiles.execute                            *)
(*                  (src/workflow/processors/special_files.py)             *)
(*   SpecFrontMatter : update_front_matter applied and applied again       *)
(*                  (src/utils.py)                                         *)
(*   SpecHeadings : process_markdown_headings applied and applied again    *)
(*                  (src/utils.py)                                         *)
(*   SpecSplit    : split_markdown_by_heading on one document              *)
(*                  (src/utils.py)                                         *)
(*   SpecContext  : HandleBarsContextBuilder.get_context (src/utils.py)    *)
(*   SpecEndToEnd : one document through the pre-process steps and the     *)
(*                  arrange strategy (src/workflow/processors/base.py,     *)
(*                  doc_section.py)                                        *)
(*   SpecBlog     : process_blog                                           *)
(*                  (src/workflow/processors/special_files.py)             *)
(*   SpecOutputTree : what one Workflow.run writes under the output tree   *)
(*                  (src/main.py, src/workflow/stages.py)                  *)
(*   SpecTocCleaner : TocCleaner.execute                                   *)
(*                  (src/workflow/processors/toc_cleaner.py)               *)
(*   SpecRedirects : PostProcessStage._create_doc_redirects, run twice     *)
(*                  (src/workflow/stages.py)                               *)
(*   SpecLatestVersion : the version taken for the global mirror           *)
(*                  (src/workflow/stages.py)                               *)
(*   SpecRegistry : WorkflowStepRegistry (src/workflow/registry.py)        *)
(*   SpecEnhancement : StreamsEnhancementStage._do_execute                 *)
(*                  (src/workflow/stages.py)                               *)
(*   SpecSync     : SyncManager (src/sync_to_hugo.py)                      *)
(*                                                                         *)
(* Every specification leaves the variables of the other parts at their    *)
(* idle values.                                                            *)
(***************************************************************************)
EXTENDS Integers, Sequences, FiniteSets, TLC

VARIABLES
    \* ---- Workflow / main (src/main.py) ----
    caller,          \* who drives the Workflow object: "main" (CLI) or "api"
    stages,          \* Workflow.stages: the list of stage names
    status,          \* WorkflowStage.status of every constructed stage
    start_stage,     \* the argument of the current Workflow.run call
    skip_validation, \* args.skip_validation
    wpc,             \* position of the caller / of Workflow.run
    idx,             \* position of the for-loop of Workflow.run in stages
    success,         \* what Workflow.run returned: "True", "False" ("none" before)
    exit_code,       \* sys.exit status (-1: the process has not exited)
    executed,        \* stage names execute() was called on in the current run
    runs,            \* number of Workflow.run calls made on the object
    \* ---- PreProcessDirectory (src/workflow/processors/directory.py) ----
    exclude_dirs,    \* rules['exclude_dirs']
    static_dirs,     \* rules['static_dirs']
    bad,             \* source files whose conversion / copy fails
    copytree_fails,  \* whether shutil.copytree raises
    dstack,          \* the recursion of PreProcessDirectory.execute (top last)
    ret,             \* what execute returned for each directory ("none" before)
    visited,         \* directory entries the for-loop has dispatched
    called,          \* directories a top-level execute() was called on
    dest_dirs,       \* directories that exist in the destination tree
    dest_index,      \* destination directories holding a placeholder _index.md
    dest_files,      \* files written / copied into the destination tree
    static_copies,   \* subtrees copied under the static root
    \* ---- PreProcessFile (src/workflow/processors/base.py) ----
    file_raises,     \* the operations that raise: "read", "write", step names
    file_pc,         \* position in PreProcessFile.execute
    file_i,          \* position of `for step in self.steps`
    file_content,    \* the local variable content
    file_context,    \* the local variable context
    file_log,        \* the execute_step calls made: step, content and context given
    file_written,    \* what write_file wrote to dest_file ("none": nothing)
    file_result,     \* how execute ended: "True", "False", "raised" ("none" before)
    \* ---- PostProcessStage / ProcessDocVersion / ProcessDocSection ----
    sections,        \* rules['sections']
    interim,         \* the interim tree: each version's source files
    output,          \* the output tree: the files of each section directory
    out_versions,    \* versions whose output directory and _index.md exist
    post_pc,         \* position in PostProcessStage._do_execute
    vi,              \* position of `for version in doc_dirs`
    si,              \* position of `for weight, section in enumerate(sections)`
    fi,              \* position of `for w, n in enumerate(section["files"])`
    attempts,        \* the ProcessDocSection.execute calls made, in order
    sec_ret,         \* what ProcessDocSection.execute returned
    ver_success,     \* `success` of the running ProcessDocVersion.execute
    ver_ret,         \* what ProcessDocVersion.execute returned
    stage_success,   \* `success` of PostProcessStage._do_execute
    post_run,        \* how many times the stage has been started on this tree
    prev_output,     \* the output tree as the previous run of the stage left it
    \* ---- ProcessSpecialFiles (src/workflow/processors/special_files.py) ----
    sf_present,      \* os.path.exists(input_file)
    sf_name,         \* self.processor_name
    sf_unreadable,   \* whether open(input_file) raises
    sf_behaviour,    \* what the looked-up processor does when called
    sf_pc,           \* position in ProcessSpecialFiles.execute
    sf_processor,    \* the local variable processor ("<None>": lookup miss)
    sf_written,      \* output files written by the processor
    sf_result,       \* how execute ended: "True", "False", "raised" ("none" before)
    \* ---- a chain of transform steps over one document (src/utils.py) ----
    md_chain,        \* the steps to execute, in order
    md_i,            \* position of `for step in steps`
    md_pc,           \* position inside the step being executed
    processed_content, \* processed_content of process_markdown_headings
    md_context,      \* the context handed from step to step
    md_history,      \* the content given first and after each executed step
    md_files,        \* files written by the steps or after them, in order
    \* ---- HandleBarsContextBuilder (src/utils.py) ----
    context_data,    \* self.context_data: metadata file path -> mapping
    context_dict,    \* self.context_dict: the index get_context looks up
    file_path,       \* the argument of the last get_context call
    hb_result,       \* what the last get_context call returned or raised
    hb_calls,        \* get_context calls made
    \* ---- process_blog (src/workflow/processors/special_files.py) ----
    blog_content,    \* the content argument
    blog_pc,         \* position in process_blog
    posts,           \* the local variable posts
    post_no,         \* position of `for post in posts`
    blog_written,    \* the writes made, in order: file name and what was written
    blog_result,     \* how process_blog ended: "True", "False", "raised" ("none" before)
    \* ---- the output tree and the components that work on whole trees ----
    \* (src/workflow/stages.py, toc_cleaner.py, registry.py, src/sync_to_hugo.py)
    tree_cfg,        \* the inputs of the component: configuration, what fails
    tree_files,      \* the files of the tree(s) worked on, with their content
    tree_pc,         \* position in the component's code
    tree_todo,       \* what its loop has still to visit
    tree_log,        \* the writes (and other effects) it made, in order
    tree_ret         \* its counters and what it returned

wfVars == <<caller, stages, status, start_stage, skip_validation, wpc, idx,
            success, exit_code, executed, runs>>

pdVars == <<exclude_dirs, static_dirs, bad, copytree_fails, dstack, ret, visited,
            called, dest_dirs, dest_index, dest_files, static_copies>>

pfVars == <<file_raises, file_pc, file_i, file_content, file_context, file_log,
            file_written, file_result>>

postVars == <<sections, interim, output, out_versions, post_pc, vi, si, fi,
              attempts, sec_ret, ver_success, ver_ret, stage_success,
              post_run, prev_output>>

sfVars == <<sf_present, sf_name, sf_unreadable, sf_behaviour, sf_pc,
            sf_processor, sf_written, sf_result>>

mdVars == <<md_chain, md_i, md_pc, processed_content, md_context, md_history,
            md_files>>

hbVars == <<context_data, context_dict, file_path, hb_result, hb_calls>>

blogVars == <<blog_content, blog_pc, posts, post_no, blog_written, blog_result>>

treeVars == <<tree_cfg, tree_files, tree_pc, tree_todo, tree_log, tree_ret>>

vars == <<wfVars, pdVars, pfVars, postVars, sfVars, mdVars, hbVars, blogVars,
          treeVars>>

----------------------------------------------------------------------------
(***************************************************************************)
(* Idle values: a specification of one part keeps the other parts here.    *)
(***************************************************************************)
notWf   == <<pdVars, pfVars, postVars, sfVars, mdVars, hbVars,
            blogVars, treeVars>>
notPd   == <<wfVars, pfVars, postVars, sfVars, mdVars, hbVars,
            blogVars, treeVars>>
notPf   == <<wfVars, pdVars, postVars, sfVars, mdVars, hbVars,
            blogVars, treeVars>>
notPost == <<wfVars, pdVars, pfVars, sfVars, mdVars, hbVars,
            blogVars, treeVars>>
notSf   == <<wfVars, pdVars, pfVars, postVars, mdVars, hbVars,
            blogVars, treeVars>>
notMd   == <<wfVars, pdVars, pfVars, postVars, sfVars, hbVars,
            blogVars, treeVars>>
notHb   == <<wfVars, pdVars, pfVars, postVars, sfVars, mdVars,
            blogVars, treeVars>>
notBlog == <<wfVars, pdVars, pfVars, postVars, sfVars, mdVars, hbVars,
            treeVars>>
notTree == <<wfVars, pdVars, pfVars, postVars, sfVars, mdVars, hbVars,
            blogVars>>

IdleWorkflow ==
    /\ caller = "none" /\ stages = << >> /\ status = << >>
    /\ start_stage = "<None>" /\ skip_validation = FALSE /\ wpc = "idle"
    /\ idx = 0 /\ success = "none" /\ exit_code = -1 /\ executed = << >>
    /\ runs = 0

IdlePreDir ==
    /\ exclude_dirs = {} /\ static_dirs = {} /\ bad = {}
    /\ copytree_fails = FALSE /\ dstack = << >> /\ ret = << >>
    /\ visited = {} /\ called = {} /\ dest_dirs = {} /\ dest_index = {}
    /\ dest_files = {} /\ static_copies = {}

IdlePreFile ==
    /\ file_raises = {} /\ file_pc = "idle" /\ file_i = 0
    /\ file_content = << >> /\ file_context = << >> /\ file_log = << >>
    /\ file_written = "none" /\ file_result = "none"

IdlePost ==
    /\ sections = << >> /\ interim = << >> /\ output = << >>
    /\ out_versions = {} /\ post_pc = "idle" /\ vi = 0 /\ si = 0 /\ fi = 0
    /\ attempts = << >> /\ sec_ret = << >> /\ ver_success = TRUE
    /\ ver_ret = << >> /\ stage_success = TRUE
    /\ post_run = 0 /\ prev_output = << >>

IdleSpecial ==
    /\ sf_present = FALSE /\ sf_name = "none" /\ sf_unreadable = FALSE
    /\ sf_behaviour = "none" /\ sf_pc = "idle" /\ sf_processor = "none"
    /\ sf_written = {} /\ sf_result = "none"

IdleSteps ==
    /\ md_chain = << >> /\ md_i = 0 /\ md_pc = "idle"
    /\ processed_content = << >> /\ md_context = << >>
    /\ md_history = << >> /\ md_files = << >>

IdleContext ==
    /\ context_data = << >> /\ context_dict = << >> /\ file_path = << >>
    /\ hb_result = << >> /\ hb_calls = 0

IdleBlog ==
    /\ blog_content = << >> /\ blog_pc = "idle" /\ posts = << >>
    /\ post_no = 0 /\ blog_written = << >> /\ blog_result = "none"

IdleTree ==
    /\ tree_cfg = << >> /\ tree_files = << >> /\ tree_pc = "idle"
    /\ tree_todo = << >> /\ tree_log = << >> /\ tree_ret = << >>

----------------------------------------------------------------------------
(***************************************************************************)
(* Bounds                                                                  *)
(***************************************************************************)
\* Workflow.run calls an API caller makes on one Workflow object.
MaxRuns == 2

\* Runs of the post-process stage over the same interim and output trees.
MaxPostRuns == 2

----------------------------------------------------------------------------
(***************************************************************************)
(* Workflow, WorkflowStage, main                                           *)
(***************************************************************************)

\* StageStatus (an Enum)
NOT_STARTED == "NOT_STARTED"
IN_PROGRESS == "IN_PROGRESS"
COMPLETED   == "COMPLETED"
FAILED      == "FAILED"
StageStatus == {NOT_STARTED, IN_PROGRESS, COMPLETED, FAILED}

\* Python's None for the start_stage argument.
None == "<None>"

\* self.stages as Workflow.__init__ builds it: (name, class) in list order.
WorkflowStages ==
    << [name |-> "clone",         cls |-> "CloneStage"],
       [name |-> "pre-process",   cls |-> "PreProcessStage"],
       [name |-> "post-process",  cls |-> "PostProcessStage"],
       [name |-> "special-files", cls |-> "ProcessSpecialFilesStage"],
       [name |-> "validate",      cls |-> "ValidationStage"] >>

StageNames == { WorkflowStages[i].name : i \in 1..Len(WorkflowStages) }

StageClass(n) ==
    (CHOOSE i \in 1..Len(WorkflowStages) : WorkflowStages[i].name = n).cls

InitialStageList == [ i \in 1..Len(WorkflowStages) |-> WorkflowStages[i].name ]

\* The values argparse accepts for --start-stage (choices=), or None.
CliStartStages ==
    {"clone", "pre-process", "post-process", "special-files", "validate", None}

\* start_stage values of a direct Workflow.run(start_stage) call: any string.
ApiStartStages == StageNames \cup {None, "", "no-such-stage"}

\* [s for s in workflow.stages if s.name != "validate"]
SkipValidationFilter(list) == SelectSeq(list, LAMBDA n : n # "validate")

\* Python truth value of the start_stage argument (`if start_stage:`).
Truthy(s) == s # None /\ s # ""

\* next(i for i, stage in enumerate(self.stages) if stage.name == start_stage)
\* as a 1-based position; 0 stands for StopIteration.
FirstIndexOf(list, s) ==
    IF \E i \in 1..Len(list) : list[i] = s
    THEN CHOOSE i \in 1..Len(list) :
            list[i] = s /\ \A j \in 1..(i - 1) : list[j] # s
    ELSE 0

\* start_idx of Workflow.run (1-based); 0 when run returns False at once.
StartIdxIgnoringArgument(list, s) == 1

StartIdx(list, s) == IF Truthy(s) THEN FirstIndexOf(list, s) ELSE 1

\* `if not stage.execute(): return False`: does the loop go on after execute()?
LoopContinuesAlways(ok) == TRUE

LoopContinues(ok) == ok

\* WorkflowStage.execute: the status its outcome leaves.  _do_execute returns
\* True ("true"), returns False ("false") or raises ("raise").
DoExecuteOutcomes == {"true", "false", "raise"}

StatusAfterReset(outcome) ==
    IF outcome = "true" THEN COMPLETED ELSE NOT_STARTED

StatusAfter(outcome) == IF outcome = "true" THEN COMPLETED ELSE FAILED

\* sys.exit(0 if success else 1)
ExitCodeAlwaysZero(ok) == 0

ExitCode(ok) == IF ok = "True" THEN 0 ELSE 1

InitWorkflow ==
    /\ caller \in {"main", "api"}
    /\ stages = InitialStageList
    /\ status = [n \in StageNames |-> NOT_STARTED]
    /\ start_stage = None
    /\ skip_validation = FALSE
    /\ wpc = "start"
    /\ idx = 0
    /\ success = "none"
    /\ exit_code = -1
    /\ executed = << >>
    /\ runs = 0
    /\ IdlePreDir /\ IdlePreFile /\ IdlePost /\ IdleSpecial /\ IdleSteps
    /\ IdleContext /\ IdleBlog /\ IdleTree

\* main(): parse the arguments, build the Workflow, filter the stages and
\* call workflow.run(args.start_stage).
MainCallsRun ==
    /\ UNCHANGED notWf
    /\ caller = "main" /\ wpc = "start"
    /\ \E s \in CliStartStages, skip \in BOOLEAN :
          /\ start_stage' = s
          /\ skip_validation' = skip
          /\ stages' = IF skip THEN SkipValidationFilter(stages) ELSE stages
    /\ wpc' = "run"
    /\ runs' = runs + 1
    /\ executed' = << >>
    /\ success' = "none"
    /\ UNCHANGED <<caller, status, idx, exit_code>>

\* A direct caller calls workflow.run(s), possibly again on the same object.
ApiCallsRun ==
    /\ UNCHANGED notWf
    /\ caller = "api" /\ wpc \in {"start", "returned"}
    /\ runs < MaxRuns
    /\ \E s \in ApiStartStages : start_stage' = s
    /\ wpc' = "run"
    /\ runs' = runs + 1
    /\ executed' = << >>
    /\ success' = "none"
    /\ UNCHANGED <<caller, stages, status, skip_validation, idx, exit_code>>

\* Workflow.run, up to the for-loop: resolve start_idx.
RunResolveStart ==
    /\ UNCHANGED notWf
    /\ wpc = "run"
    /\ LET i == StartIdx(stages, start_stage) IN
         IF i = 0
         THEN /\ success' = "False"
              /\ wpc' = "returned"
              /\ idx' = 0
         ELSE /\ idx' = i
              /\ wpc' = "loop"
              /\ UNCHANGED success
    /\ UNCHANGED <<caller, stages, status, start_stage, skip_validation,
                   exit_code, executed, runs>>

\* The for-loop is exhausted: return True.
RunReturnsTrue ==
    /\ UNCHANGED notWf
    /\ wpc = "loop" /\ idx > Len(stages)
    /\ success' = "True"
    /\ wpc' = "returned"
    /\ UNCHANGED <<caller, stages, status, start_stage, skip_validation, idx,
                   exit_code, executed, runs>>

\* stage.execute() is entered: status = IN_PROGRESS.
StageExecuteBegins ==
    /\ UNCHANGED notWf
    /\ wpc = "loop" /\ idx <= Len(stages)
    /\ status' = [status EXCEPT ![stages[idx]] = IN_PROGRESS]
    /\ executed' = Append(executed, stages[idx])
    /\ wpc' = "in_stage"
    /\ UNCHANGED <<caller, stages, start_stage, skip_validation, idx, success,
                   exit_code, runs>>

\* stage.execute() returns: COMPLETED / FAILED, and the loop goes on or
\* Workflow.run returns False.
StageExecuteEnds ==
    /\ UNCHANGED notWf
    /\ wpc = "in_stage"
    /\ \E outcome \in DoExecuteOutcomes :
          /\ status' = [status EXCEPT ![stages[idx]] = StatusAfter(outcome)]
          /\ IF LoopContinues(outcome = "true")
             THEN /\ idx' = idx + 1
                  /\ wpc' = "loop"
                  /\ UNCHANGED success
             ELSE /\ success' = "False"
                  /\ wpc' = "returned"
                  /\ UNCHANGED idx
    /\ UNCHANGED <<caller, stages, start_stage, skip_validation, exit_code,
                   executed, runs>>

\* main(): sys.exit(0 if success else 1)
MainExits ==
    /\ UNCHANGED notWf
    /\ caller = "main" /\ wpc = "returned"
    /\ exit_code' = ExitCode(success)
    /\ wpc' = "exited"
    /\ UNCHANGED <<caller, stages, status, start_stage, skip_validation, idx,
                   success, executed, runs>>

NextWorkflow ==
    \/ MainCallsRun
    \/ ApiCallsRun
    \/ RunResolveStart
    \/ RunReturnsTrue
    \/ StageExecuteBegins
    \/ StageExecuteEnds
    \/ MainExits

SpecWorkflow == InitWorkflow /\ [][NextWorkflow]_vars

----------------------------------------------------------------------------
(***************************************************************************)
(* Claims about Workflow.run, WorkflowStage.execute and main               *)
(***************************************************************************)

Terminal == {COMPLETED, FAILED}

\* The positions of executed, and the stage list positions they came from.
ExecutedIsSliceFrom(a) ==
    \A i \in 1..Len(executed) :
        a + i - 1 <= Len(stages) /\ executed[i] = stages[a + i - 1]

\* C1: Workflow.run executes the stages strictly in list order and is
\* fail-fast: the stages executed in a run are consecutive entries of the
\* list, every executed stage but the last one completed (so nothing is
\* executed after a failed stage), a run that saw a stage fail returns False,
\* a run returns True only if every executed stage completed, and, in the
\* first run on a Workflow, every stage that was not executed (all those after
\* a failed one among them) still has status NOT_STARTED.
C1_RunInOrderFailFast ==
    /\ \E a \in 1..(Len(stages) + 1) : ExecutedIsSliceFrom(a)
    /\ \A i \in 1..(Len(executed) - 1) : status[executed[i]] = COMPLETED
    /\ (wpc \in {"returned", "exited"} /\ success = "True")
          => \A i \in 1..Len(executed) : status[executed[i]] = COMPLETED
    /\ (wpc \in {"returned", "exited"} /\ Len(executed) > 0
            /\ status[executed[Len(executed)]] = FAILED)
          => success = "False"
    /\ runs = 1 =>
          \A n \in StageNames :
             (\A i \in 1..Len(executed) : executed[i] # n)
                => status[n] = NOT_STARTED

\* A first run in which the second stage failed: run has returned False and
\* the stages after it were never started.
C1_Witness ==
    /\ wpc = "returned" /\ success = "False" /\ runs = 1
    /\ executed = <<"clone", "pre-process">>
    /\ status["pre-process"] = FAILED
    /\ status["post-process"] = NOT_STARTED
    /\ status["validate"] = NOT_STARTED

\* C2: in a full successful run (no start stage, validation not skipped, exit
\* status 0) the stages executed are clone, pre-process, post-process,
\* special-file extraction, enhancement (a StreamsEnhancementStage) and
\* validation, in that order.
C2_EnhancementStageRuns ==
    (caller = "main" /\ wpc = "exited" /\ exit_code = 0
        /\ start_stage = None /\ ~skip_validation)
    => /\ Len(executed) = 6
       /\ [i \in 1..Len(executed) |-> StageClass(executed[i])]
            = << "CloneStage", "PreProcessStage", "PostProcessStage",
                 "ProcessSpecialFilesStage", "StreamsEnhancementStage",
                 "ValidationStage" >>

\* C3 (as claimed): COMPLETED and FAILED are terminal: once a stage has one of
\* them its status never changes again, whatever execute() calls follow.
C3_TerminalNeverChanges ==
    [][\A n \in StageNames : status[n] \in Terminal => status'[n] = status[n]]_vars

\* C3 (amended): a status starts NOT_STARTED and never returns to NOT_STARTED;
\* COMPLETED and FAILED are final within one Workflow.run, and are left only
\* by a later execute() call (a further Workflow.run on the same object), which
\* moves the status to IN_PROGRESS.
C3_StatusLifecycle ==
    /\ (runs = 0 => \A n \in StageNames : status[n] = NOT_STARTED)
    /\ [][\A n \in StageNames :
            /\ status[n] # NOT_STARTED => status'[n] # NOT_STARTED
            /\ status[n] \in Terminal =>
                 \/ status'[n] = status[n]
                 \/ status'[n] = IN_PROGRESS /\ runs > 1 /\ runs' = runs
            /\ (status[n] \in Terminal /\ n \in {executed[i] : i \in 1..Len(executed)})
                 => (runs' = runs => status'[n] = status[n])]_vars

\* A second run is executing a stage that the first run had completed.
C3_Witness ==
    /\ runs = 2 /\ wpc = "in_stage"
    /\ status["clone"] = COMPLETED
    /\ status["pre-process"] = IN_PROGRESS
    /\ status["post-process"] = FAILED

\* The stage names a run may execute, given its start position.
NamesFrom(a) == { stages[i] : i \in a..Len(stages) }

\* C4 (as claimed): run(start_stage = s) with s naming no stage of the current
\* list executes no stage and returns False.
C4_UnknownNameRunsNothing ==
    (wpc \in {"loop", "in_stage", "returned", "exited"}
        /\ start_stage # None
        /\ \A i \in 1..Len(stages) : stages[i] # start_stage)
    => /\ executed = << >>
       /\ wpc \in {"returned", "exited"} => success = "False"

\* C4 (amended): run(start_stage = s) with s the name of a stage executes the
\* stages from s on, in order, and never a stage before s, and (fail-fast
\* aside) all of them; with s a non-empty string naming no stage it executes
\* nothing and returns False; the empty string is treated like None: the run
\* starts at the first stage.
C4_StartStage ==
    LET known == \E i \in 1..Len(stages) : stages[i] = start_stage
        pos   == CHOOSE i \in 1..Len(stages) : stages[i] = start_stage
        inRun == wpc \in {"loop", "in_stage", "returned", "exited"}
        over  == wpc \in {"returned", "exited"}
    IN
    /\ (inRun /\ known) =>
          /\ ExecutedIsSliceFrom(pos)
          /\ (over /\ success = "True") => Len(executed) = Len(stages) - pos + 1
    /\ (inRun /\ ~known /\ start_stage \notin {None, ""}) =>
          /\ executed = << >>
          /\ over /\ success = "False"
    /\ (inRun /\ start_stage \in {None, ""}) =>
          /\ ExecutedIsSliceFrom(1)
          /\ (over /\ success = "True") => Len(executed) = Len(stages)

\* A resumed run that went from post-process to the end.
C4_Witness ==
    /\ wpc = "returned" /\ success = "True"
    /\ start_stage = "post-process"
    /\ executed = <<"post-process", "special-files", "validate">>
    /\ status["clone"] = NOT_STARTED

----------------------------------------------------------------------------
(***************************************************************************)
(* PreProcessDirectory.execute over a source tree                          *)
(***************************************************************************)

\* The source trees: every directory with its entries (os.listdir).  "39" and
\* "40" are the directories top-level calls are made on.
SrcTree ==
    "39"              :> {"design.html", "logo.png", "streams"} @@
    "streams"         :> {"intro.html", "developer-guide"} @@
    "developer-guide" :> {"dsl.html"} @@
    "40"              :> {"api.html", "notes.txt"}

SrcDirs  == DOMAIN SrcTree
SrcFiles == (UNION { SrcTree[d] : d \in SrcDirs }) \ SrcDirs
TopDirs  == {"39", "40"}
SubDirs  == SrcDirs \ TopDirs

\* The directory the top-level directories live in (context.source_dir).
SourceRoot == "source"

\* rules['doc_dirs']
doc_dirs == {"39", "40"}

\* os.path.isdir(src_path)
IsDir(e) == e \in SrcDirs

\* src_path.endswith('.html'), and the name write_file gives the result
\* (dest_file.replace('.html', '.md')).
MdName ==
    "design.html" :> "design.md" @@ "intro.html" :> "intro.md" @@
    "dsl.html" :> "dsl.md" @@ "api.html" :> "api.md"

IsHtml(e) == e \in DOMAIN MdName

HtmlFiles == { e \in SrcFiles : IsHtml(e) }

ParentOf(e) == CHOOSE d \in SrcDirs : e \in SrcTree[d]

\* Where a static directory is copied to: static_path/<parent>/<name> when
\* the parent is a documentation version, static_path/<name> otherwise.
StaticDest(d, parent) ==
    IF parent \in doc_dirs THEN <<"static", parent, d>> ELSE <<"static", d>>

\* The state of the directory loop after an entry: "run" (go on with the next
\* entry) or "False" (`if not processor.execute(): return False`, and the
\* `return False` of the copy's except clause).
AfterEntryIgnoringFailure(ok) == "run"

AfterEntry(ok) == IF ok THEN "run" ELSE "False"

Frame(d, todo, res) == [dir |-> d, todo |-> todo, res |-> res]

\* A variant of the entry that tests static_dirs before exclude_dirs.
EnterStaticTestFirst(d, parent, stk) ==
    IF d \in static_dirs
    THEN /\ dstack' = Append(stk, Frame(d, {},
                                IF copytree_fails THEN "False" ELSE "True"))
         /\ static_copies' = IF copytree_fails THEN static_copies
                             ELSE static_copies \cup {StaticDest(d, parent)}
         /\ UNCHANGED <<dest_dirs, dest_index>>
    ELSE IF d \in exclude_dirs
    THEN /\ dstack' = Append(stk, Frame(d, {}, "True"))
         /\ UNCHANGED <<dest_dirs, dest_index, static_copies>>
    ELSE /\ dstack' = Append(stk, Frame(d, SrcTree[d], "run"))
         /\ dest_dirs' = dest_dirs \cup {d}
         /\ dest_index' = IF d \in dest_dirs THEN dest_index
                          ELSE dest_index \cup {d}
         /\ UNCHANGED static_copies

\* PreProcessDirectory(d).execute() is entered with stk as the callers'
\* frames: the exclusion test, the static copy, or the creation of the
\* destination directory with its placeholder _index.md before the loop.
Enter(d, parent, stk) ==
    IF d \in exclude_dirs
    THEN /\ dstack' = Append(stk, Frame(d, {}, "True"))
         /\ UNCHANGED <<dest_dirs, dest_index, static_copies>>
    ELSE IF d \in static_dirs
    THEN /\ dstack' = Append(stk, Frame(d, {},
                                IF copytree_fails THEN "False" ELSE "True"))
         /\ static_copies' = IF copytree_fails THEN static_copies
                             ELSE static_copies \cup {StaticDest(d, parent)}
         /\ UNCHANGED <<dest_dirs, dest_index>>
    ELSE /\ dstack' = Append(stk, Frame(d, SrcTree[d], "run"))
         /\ dest_dirs' = dest_dirs \cup {d}
         /\ dest_index' = IF d \in dest_dirs THEN dest_index
                          ELSE dest_index \cup {d}
         /\ UNCHANGED static_copies

InitPreDir ==
    /\ exclude_dirs \in SUBSET SubDirs
    /\ static_dirs \in SUBSET SubDirs
    /\ bad \in SUBSET SrcFiles
    /\ copytree_fails \in BOOLEAN
    /\ dstack = << >>
    /\ ret = [d \in SrcDirs |-> "none"]
    /\ visited = {}
    /\ called = {}
    /\ dest_dirs \in {{}, {"39"}}
    /\ dest_index = dest_dirs
    /\ dest_files = {}
    /\ static_copies = {}
    /\ IdleWorkflow /\ IdlePreFile /\ IdlePost /\ IdleSpecial /\ IdleSteps
    /\ IdleContext /\ IdleBlog /\ IdleTree

\* A top-level call PreProcessDirectory(d, ...).execute().
TopLevelCall ==
    /\ dstack = << >>
    /\ \E d \in TopDirs \ called :
          /\ called' = called \cup {d}
          /\ Enter(d, SourceRoot, << >>)
    /\ UNCHANGED <<exclude_dirs, static_dirs, bad, copytree_fails, ret,
                   visited, dest_files>>
    /\ UNCHANGED notPd

\* One iteration of `for item in os.listdir(self.src_dir)`; the order of the
\* listing is arbitrary.
ProcessEntry ==
    /\ dstack # << >>
    /\ LET n == Len(dstack)
           f == dstack[n]
       IN
       /\ f.res = "run"
       /\ \E e \in f.todo :
            LET rest == [f EXCEPT !.todo = f.todo \ {e}] IN
            /\ visited' = visited \cup {e}
            /\ IF IsDir(e)
               THEN /\ Enter(e, f.dir, [dstack EXCEPT ![n] = rest])
                    /\ UNCHANGED dest_files
               ELSE /\ dstack' = [dstack EXCEPT
                                    ![n] = [rest EXCEPT !.res = AfterEntry(e \notin bad)]]
                    /\ dest_files' =
                         IF e \in bad THEN dest_files
                         ELSE dest_files \cup
                                {<<f.dir, IF IsHtml(e) THEN MdName[e] ELSE e>>}
                    /\ UNCHANGED <<dest_dirs, dest_index, static_copies>>
    /\ UNCHANGED <<exclude_dirs, static_dirs, bad, copytree_fails, ret, called>>
    /\ UNCHANGED notPd

\* The listing is exhausted: `return True`.
DirLoopEnds ==
    /\ dstack # << >>
    /\ LET n == Len(dstack) IN
       /\ dstack[n].res = "run" /\ dstack[n].todo = {}
       /\ dstack' = [dstack EXCEPT ![n].res = "True"]
    /\ UNCHANGED <<exclude_dirs, static_dirs, bad, copytree_fails, ret, visited,
                   called, dest_dirs, dest_index, dest_files, static_copies>>
    /\ UNCHANGED notPd

\* execute() returns to its caller: the enclosing loop goes on or returns False.
DirReturns ==
    /\ dstack # << >>
    /\ LET n == Len(dstack)
           f == dstack[n]
       IN
       /\ f.res # "run"
       /\ ret' = [ret EXCEPT ![f.dir] = f.res]
       /\ dstack' =
            IF n = 1 THEN << >>
            ELSE [SubSeq(dstack, 1, n - 1) EXCEPT
                    ![n - 1].res = AfterEntry(f.res = "True")]
    /\ UNCHANGED <<exclude_dirs, static_dirs, bad, copytree_fails, visited,
                   called, dest_dirs, dest_index, dest_files, static_copies>>
    /\ UNCHANGED notPd

NextPreDir ==
    \/ TopLevelCall
    \/ ProcessEntry
    \/ DirLoopEnds
    \/ DirReturns

SpecPreDir == InitPreDir /\ [][NextPreDir]_vars

----------------------------------------------------------------------------
(***************************************************************************)
(* Claims about PreProcessDirectory.execute                                *)
(***************************************************************************)

\* Processed as a content directory: neither excluded nor copied as static.
IsContentDir(d) == d \notin exclude_dirs /\ d \notin static_dirs

\* The entries of the tree under d that the walk has to dispatch.
RECURSIVE EntriesUnder(_)
EntriesUnder(d) ==
    IF ~IsContentDir(d) THEN {}
    ELSE SrcTree[d] \cup
         UNION { EntriesUnder(c) : c \in { e \in SrcTree[d] : IsDir(e) } }

\* Every directory and file of the source tree under d, d included.
RECURSIVE TreeUnder(_)
TreeUnder(d) ==
    {d} \cup SrcTree[d] \cup
    UNION { TreeUnder(c) : c \in { e \in SrcTree[d] : IsDir(e) } }

\* An entry the loop dispatched and whose processing failed.
EntryFailed(e) ==
    /\ e \in visited
    /\ IF IsDir(e) THEN ret[e] = "False" ELSE e \in bad

\* C6: the failure of one source file's conversion does not abort the batch:
\* when a top-level call has returned and the only failures were HTML
\* conversions, every entry of the tree (every sibling file and directory of
\* the failed file among them) was processed.
C6_FileFailureDoesNotAbortBatch ==
    \A t \in TopDirs :
       (ret[t] # "none" /\ bad \subseteq HtmlFiles /\ ~copytree_fails)
          => EntriesUnder(t) \subseteq visited

\* C7: the failure of a single entry (subdirectory recursion, HTML conversion
\* or verbatim copy) makes execute return False for its directory, at once (no
\* further entry of the directory fails after it), and for every enclosing
\* directory; a directory returns False for no other reason; and a top-level
\* call on another tree is unaffected: it returns True whenever nothing fails
\* in its own tree, having processed all of it.
C7_FailFastWithinDirectory ==
    /\ \A d \in SrcDirs :
         (ret[d] # "none" /\ IsContentDir(d)) =>
            /\ ret[d] = "False" <=> \E e \in SrcTree[d] : EntryFailed(e)
            /\ Cardinality({ e \in SrcTree[d] : EntryFailed(e) }) <= 1
            /\ ret[d] = "True" => SrcTree[d] \subseteq visited
    /\ \A d \in SubDirs :
         (ret[d] = "False" /\ ret[ParentOf(d)] # "none")
            => ret[ParentOf(d)] = "False"
    /\ \A t \in TopDirs :
         (ret[t] # "none"
             /\ TreeUnder(t) \cap bad = {}
             /\ (copytree_fails => TreeUnder(t) \cap static_dirs \cap EntriesUnder(t) = {}))
            => /\ ret[t] = "True"
               /\ EntriesUnder(t) \subseteq visited

\* A failed conversion two levels down made all three enclosing calls return
\* False, with a sibling left unprocessed, while the call on the other tree
\* returned True.
C7_Witness ==
    /\ bad = {"dsl.html"}
    /\ ret["developer-guide"] = "False"
    /\ ret["streams"] = "False"
    /\ ret["39"] = "False"
    /\ "logo.png" \notin visited
    /\ ret["40"] = "True"

----------------------------------------------------------------------------
(***************************************************************************)
(* PreProcessFile.execute: the step chain over one source file             *)
(***************************************************************************)

\* WorkflowStepRegistry.get_pre_process_steps(): the default step list, which
\* PreProcessDirectory passes to every PreProcessFile.
DefaultPreProcessSteps ==
    << "sanitize_html", "process_handlebars", "process_ssi",
       "convert_to_md", "add_front_matter", "process_headings" >>

\* Everything in PreProcessFile.execute that can raise.
RaisePoints ==
    {"read", "write"} \cup
    { DefaultPreProcessSteps[i] : i \in 1..Len(DefaultPreProcessSteps) }

\* The text read from src_file, and the context execute builds before the try.
SourceContent  == <<"html">>
InitialContext == <<"context">>

\* step(content, context): a step returns new content and the context it
\* was given, possibly updated.  The values record which steps produced them.
StepResult(step, content, context) ==
    [content |-> Append(content, step), context |-> Append(context, step)]

\* Is this operation inside the try block of PreProcessFile.execute?
InsideTryExceptRead(point) == point # "read"

InsideTry(point) == TRUE

\* An exception at `point`: caught by `except Exception` (return False), or
\* escaping execute.
ResultOfRaise(point) == IF InsideTry(point) THEN "False" ELSE "raised"

InitPreFile ==
    /\ file_raises \in SUBSET RaisePoints
    /\ file_pc = "start"
    /\ file_i = 0
    /\ file_content = << >>
    /\ file_context = InitialContext
    /\ file_log = << >>
    /\ file_written = "none"
    /\ file_result = "none"
    /\ IdleWorkflow /\ IdlePreDir /\ IdlePost /\ IdleSpecial /\ IdleSteps
    /\ IdleContext /\ IdleBlog /\ IdleTree

\* open(self.src_file).read()
FileRead ==
    /\ file_pc = "start"
    /\ IF "read" \in file_raises
       THEN /\ file_result' = ResultOfRaise("read")
            /\ file_pc' = "done"
            /\ UNCHANGED <<file_content, file_i>>
       ELSE /\ file_content' = SourceContent
            /\ file_i' = 1
            /\ file_pc' = "steps"
            /\ UNCHANGED file_result
    /\ UNCHANGED <<file_raises, file_context, file_log, file_written>>
    /\ UNCHANGED notPf

\* content, context = execute_step(step, content, context); execute_step logs
\* and re-raises what the step raises.
FileStep ==
    /\ file_pc = "steps" /\ file_i <= Len(DefaultPreProcessSteps)
    /\ LET step == DefaultPreProcessSteps[file_i] IN
       /\ file_log' = Append(file_log, [step |-> step, content |-> file_content,
                                        context |-> file_context])
       /\ IF step \in file_raises
          THEN /\ file_result' = ResultOfRaise(step)
               /\ file_pc' = "done"
               /\ UNCHANGED <<file_content, file_context, file_i>>
          ELSE /\ file_content' = StepResult(step, file_content, file_context).content
               /\ file_context' = StepResult(step, file_content, file_context).context
               /\ file_i' = file_i + 1
               /\ UNCHANGED <<file_pc, file_result>>
    /\ UNCHANGED <<file_raises, file_written>>
    /\ UNCHANGED notPf

\* write_file(self.dest_file, content, context); return True
FileWrite ==
    /\ file_pc = "steps" /\ file_i > Len(DefaultPreProcessSteps)
    /\ IF "write" \in file_raises
       THEN /\ file_result' = ResultOfRaise("write")
            /\ UNCHANGED file_written
       ELSE /\ file_written' = file_content
            /\ file_result' = "True"
    /\ file_pc' = "done"
    /\ UNCHANGED <<file_raises, file_i, file_content, file_context, file_log>>
    /\ UNCHANGED notPf

NextPreFile ==
    \/ FileRead
    \/ FileStep
    \/ FileWrite

SpecPreFile == InitPreFile /\ [][NextPreFile]_vars

----------------------------------------------------------------------------
(***************************************************************************)
(* Claims about PreProcessFile.execute                                     *)
(***************************************************************************)

\* The operations of execute in the order it performs them.
FileOperations == <<"read">> \o DefaultPreProcessSteps \o <<"write">>

\* What the chain of the first k steps makes of the source text.
RECURSIVE ChainOutput(_)
ChainOutput(k) ==
    IF k = 0 THEN [content |-> SourceContent, context |-> InitialContext]
    ELSE StepResult(DefaultPreProcessSteps[k], ChainOutput(k - 1).content,
                    ChainOutput(k - 1).context)

\* C8: PreProcessFile.execute never lets an exception escape: it ends with
\* True or False; if the read, a step or the write raises it returns False,
\* no step after the failing operation has run and nothing is written; it
\* returns True only when nothing raised, every step ran once in list order,
\* each on the content and context the previous step returned, and the
\* content the last step returned was written.
C8_FileNeverRaises ==
    file_pc = "done" =>
       /\ file_result \in {"True", "False"}
       /\ file_result = "False" <=> file_raises # {}
       /\ file_raises # {} =>
            LET first == CHOOSE k \in 1..Len(FileOperations) :
                            /\ FileOperations[k] \in file_raises
                            /\ \A j \in 1..(k - 1) : FileOperations[j] \notin file_raises
            IN /\ Len(file_log) = IF first = Len(FileOperations) THEN first - 2
                                  ELSE first - 1
               /\ file_written = "none"
       /\ \A i \in 1..Len(file_log) :
            /\ file_log[i].step = DefaultPreProcessSteps[i]
            /\ file_log[i].content = ChainOutput(i - 1).content
            /\ file_log[i].context = ChainOutput(i - 1).context
       /\ file_result = "True" =>
            /\ Len(file_log) = Len(DefaultPreProcessSteps)
            /\ file_written = ChainOutput(Len(DefaultPreProcessSteps)).content

\* The third step raised: execute returned False after three execute_step
\* calls and wrote nothing.
C8_Witness ==
    /\ file_pc = "done" /\ file_result = "False"
    /\ file_raises = {"process_ssi"}
    /\ Len(file_log) = 3
    /\ file_written = "none"

----------------------------------------------------------------------------
(***************************************************************************)
(* PostProcessStage: ProcessDocVersion over ProcessDocSection              *)
(***************************************************************************)

\* rules['doc_dirs'] in declared order.
DocDirList == <<"39", "40">>

DocVersions == { DocDirList[i] : i \in 1..Len(DocDirList) }

\* A declared file of an arrange section; dst_file = "" when the entry has
\* no 'dst_file' key.
FileEntry(src, dst) == [src_file |-> src, dst_file |-> dst]

\* A section of rules['sections'].
Section(name, strategy, files, src) ==
    [name |-> name, strategy |-> strategy, files |-> files, src_file |-> src]

\* The section lists of the rules: two arrange sections around a split
\* section; the strategy of the last one may be one the code does not know.
SectionLists ==
    { << Section("getting-started", "arrange",
                 <<FileEntry("introduction.md", ""),
                   FileEntry("uses.md", "use-cases.md")>>, ""),
         Section("design", "split_markdown_by_heading", << >>, "design.md"),
         Section("apis", strategy, <<FileEntry("introduction.md", "")>>, "") >>
      : strategy \in {"arrange", "merge"} }

SectionNames == {"getting-started", "design", "apis"}

InterimFiles == {"introduction.md", "uses.md", "design.md"}

\* A source file of the interim tree: missing, readable, or present but
\* failing to be read (open/read raises).
FileStates == {"absent", "ok", "bad"}

\* An entry of a section directory: a file name with the weight in its front
\* matter.
OutFile(name, weight) == [name |-> name, weight |-> weight]

\* A section directory of the output tree: missing, or holding files.
NoDir == [exists |-> FALSE, files |-> {}]
Dir(files) == [exists |-> TRUE, files |-> files]

\* What an earlier run may have left in a section directory.
StaleDir == Dir({OutFile("_index.md", 0), OutFile("removed-page.md", 7)})

\* The files split_markdown_by_heading writes for design.md: one per heading
\* of the split level, weighted by position.
SplitOutputs == {OutFile("motivation.md", 1), OutFile("persistence.md", 2)}

\* "weight" of the section index: section_weight, the position of the section
\* in `enumerate(self.rules.get('sections'), start=1)`.
SectionWeight(position) == position

\* Output files numbered in the order they are written, without gaps.
FileWeightRenumbered(position, written) == written + 1

\* "weight" of an arrange output: w of `enumerate(self.section["files"],
\* start=1)`, whatever the number of files written before it.
FileWeight(position, written) == position

\* A section directory that keeps what an earlier run left in it.
ResetKeepsOldFiles(old, weight) ==
    Dir({ f \in old.files : f.name # "_index.md" } \cup {OutFile("_index.md", weight)})

\* Section directory before the strategy runs: whatever was there is removed
\* (shutil.rmtree), the directory is made again and _index.md is written with
\* the section weight.
ResetSectionDir(old, weight) == Dir({OutFile("_index.md", weight)})

\* dest_file of a declared file: dst_file if given, else src_file.
DestName(n) == IF n.dst_file # "" THEN n.dst_file ELSE n.src_file

\* What the arrange loop does with a declared file: "skip" (not found: log and
\* continue), "write" (run the steps and write the result) or "fail" (the
\* except clause: return False).
FileOutcomeAbsentFails(state) ==
    IF state = "ok" THEN "write" ELSE "fail"

FileOutcome(state) ==
    CASE state = "absent" -> "skip"
      [] state = "ok"     -> "write"
      [] state = "bad"    -> "fail"

\* What _execute_split_strategy returns for its source file.
SplitResult(state) == state # "bad"

\* ProcessDocVersion.execute after a section returned ok: the new value of
\* success, and whether the section loop goes on.
VersionSuccessAfter(cur, ok) == cur /\ ok

SectionLoopStopsOnFailure(ok) == ok

SectionLoopContinues(ok) == TRUE

\* PostProcessStage._do_execute after a version returned ok.
StageSuccessAfter(cur, ok) == cur /\ ok

VersionLoopContinues(ok) == TRUE

InitPost ==
    /\ sections \in SectionLists
    /\ interim \in [DocVersions \X InterimFiles -> FileStates]
    /\ \E old \in {"none", "stale"} :
          output = [k \in DocVersions \X SectionNames |->
                       IF old = "none" THEN NoDir ELSE StaleDir]
    /\ out_versions = {}
    /\ post_pc = "versions"
    /\ vi = 1
    /\ si = 0
    /\ fi = 0
    /\ attempts = << >>
    /\ sec_ret = [k \in DocVersions \X SectionNames |-> "none"]
    /\ ver_success = TRUE
    /\ ver_ret = [v \in DocVersions |-> "none"]
    /\ stage_success = TRUE
    /\ post_run = 1
    /\ prev_output = output
    /\ IdleWorkflow /\ IdlePreDir /\ IdlePreFile /\ IdleSpecial /\ IdleSteps
    /\ IdleContext /\ IdleBlog /\ IdleTree

\* ProcessDocSection.execute returned ok to ProcessDocVersion.execute.
SectionReturns(v, name, ok) ==
    /\ sec_ret' = [sec_ret EXCEPT ![<<v, name>>] = IF ok THEN "True" ELSE "False"]
    /\ ver_success' = VersionSuccessAfter(ver_success, ok)
    /\ IF SectionLoopContinues(ok)
       THEN si' = si + 1
       ELSE si' = Len(sections) + 1
    /\ fi' = 0
    /\ post_pc' = "sections"

\* ProcessDocVersion.execute up to the section loop: the version directory and
\* its _index.md.
VersionBegins ==
    /\ post_pc = "versions" /\ vi <= Len(DocDirList)
    /\ out_versions' = out_versions \cup {DocDirList[vi]}
    /\ ver_success' = TRUE
    /\ si' = 1
    /\ post_pc' = "sections"
    /\ UNCHANGED <<sections, interim, post_run, prev_output, output, vi, fi, attempts, sec_ret, ver_ret,
                   stage_success>>
    /\ UNCHANGED notPost

\* ProcessDocSection.execute: reset the section directory, write its index,
\* and dispatch on the strategy.  The split strategy and an unknown strategy
\* return here; the arrange strategy enters its file loop.
SectionBegins ==
    /\ post_pc = "sections" /\ si <= Len(sections)
    /\ LET v   == DocDirList[vi]
           sec == sections[si]
           key == <<v, sec.name>>
           dir == ResetSectionDir(output[key], SectionWeight(si))
       IN
       /\ attempts' = Append(attempts, key)
       /\ CASE sec.strategy = "arrange" ->
                 /\ output' = [output EXCEPT ![key] = dir]
                 /\ fi' = 1
                 /\ post_pc' = "arrange"
                 /\ UNCHANGED <<si, sec_ret, ver_success>>
            [] sec.strategy = "split_markdown_by_heading" ->
                 /\ output' = [output EXCEPT ![key] =
                       IF interim[<<v, sec.src_file>>] = "ok"
                       THEN Dir(dir.files \cup SplitOutputs) ELSE dir]
                 /\ SectionReturns(v, sec.name,
                                   SplitResult(interim[<<v, sec.src_file>>]))
            [] OTHER ->
                 /\ output' = [output EXCEPT ![key] = dir]
                 /\ SectionReturns(v, sec.name, FALSE)
    /\ UNCHANGED <<sections, interim, post_run, prev_output, out_versions, vi, ver_ret, stage_success>>
    /\ UNCHANGED notPost

\* One iteration of the loop of _execute_arrange_strategy.
ArrangeFile ==
    /\ post_pc = "arrange" /\ fi <= Len(sections[si].files)
    /\ LET v   == DocDirList[vi]
           sec == sections[si]
           key == <<v, sec.name>>
           n   == sec.files[fi]
           what == FileOutcome(interim[<<v, n.src_file>>])
       IN
       CASE what = "skip" ->
              /\ fi' = fi + 1
              /\ UNCHANGED <<output, post_pc, si, sec_ret, ver_success>>
         [] what = "write" ->
              /\ output' = [output EXCEPT ![key] =
                    Dir(@.files \cup
                        {OutFile(DestName(n),
                                 FileWeight(fi, Cardinality(@.files) - 1))})]
              /\ fi' = fi + 1
              /\ UNCHANGED <<post_pc, si, sec_ret, ver_success>>
         [] what = "fail" ->
              /\ SectionReturns(v, sec.name, FALSE)
              /\ UNCHANGED output
    /\ UNCHANGED <<sections, interim, post_run, prev_output, out_versions, vi, attempts, ver_ret,
                   stage_success>>
    /\ UNCHANGED notPost

\* The declared files are exhausted: _execute_arrange_strategy returns True.
ArrangeEnds ==
    /\ post_pc = "arrange" /\ fi > Len(sections[si].files)
    /\ SectionReturns(DocDirList[vi], sections[si].name, TRUE)
    /\ UNCHANGED <<sections, interim, post_run, prev_output, output, out_versions, vi, attempts, ver_ret,
                   stage_success>>
    /\ UNCHANGED notPost

\* ProcessDocVersion.execute returns success to PostProcessStage._do_execute.
VersionEnds ==
    /\ post_pc = "sections" /\ si > Len(sections)
    /\ ver_ret' = [ver_ret EXCEPT ![DocDirList[vi]] =
                      IF ver_success THEN "True" ELSE "False"]
    /\ stage_success' = StageSuccessAfter(stage_success, ver_success)
    /\ IF VersionLoopContinues(ver_success)
       THEN vi' = vi + 1
       ELSE vi' = Len(DocDirList) + 1
    /\ si' = 0
    /\ post_pc' = "versions"
    /\ UNCHANGED <<sections, interim, post_run, prev_output, output, out_versions, fi, attempts, sec_ret,
                   ver_success>>
    /\ UNCHANGED notPost

\* The version loop of PostProcessStage._do_execute is exhausted.
VersionLoopEnds ==
    /\ post_pc = "versions" /\ vi > Len(DocDirList)
    /\ post_pc' = "versions_done"
    /\ UNCHANGED <<sections, interim, post_run, prev_output, output, out_versions, vi, si, fi, attempts,
                   sec_ret, ver_success, ver_ret, stage_success>>
    /\ UNCHANGED notPost

\* The stage is executed again over the same interim and output trees.
PostRerun ==
    /\ post_pc = "versions_done" /\ post_run < MaxPostRuns
    /\ post_run' = post_run + 1
    /\ prev_output' = output
    /\ post_pc' = "versions"
    /\ vi' = 1
    /\ si' = 0
    /\ fi' = 0
    /\ attempts' = << >>
    /\ sec_ret' = [k \in DocVersions \X SectionNames |-> "none"]
    /\ ver_success' = TRUE
    /\ ver_ret' = [v \in DocVersions |-> "none"]
    /\ stage_success' = TRUE
    /\ UNCHANGED <<sections, interim, output, out_versions>>
    /\ UNCHANGED notPost

NextPost ==
    \/ PostRerun
    \/ VersionBegins
    \/ SectionBegins
    \/ ArrangeFile
    \/ ArrangeEnds
    \/ VersionEnds
    \/ VersionLoopEnds

SpecPost == InitPost /\ [][NextPost]_vars

----------------------------------------------------------------------------
(***************************************************************************)
(* Claims about post-processing                                            *)
(***************************************************************************)

\* Every (version, section) pair: versions in doc_dirs order, and within a
\* version the sections in declared order.
RECURSIVE AllAttemptsFrom(_, _)
AllAttemptsFrom(v, k) ==
    IF v > Len(DocDirList) THEN << >>
    ELSE IF k > Len(sections) THEN AllAttemptsFrom(v + 1, 1)
    ELSE <<<<DocDirList[v], sections[k].name>>>> \o AllAttemptsFrom(v, k + 1)

IsPrefix(a, b) == Len(a) <= Len(b) /\ a = SubSeq(b, 1, Len(a))

DeclaredFiles(sec) ==
    IF sec.strategy = "split_markdown_by_heading" THEN {sec.src_file}
    ELSE { sec.files[i].src_file : i \in 1..Len(sec.files) }

\* The outputs of a section directory other than its index document.
Outputs(key) == { f \in output[key].files : f.name # "_index.md" }

\* C10: a declared source file that does not exist is not an error: a section
\* that has returned has its directory and index document written; it failed
\* only if its strategy is unknown or a present file could not be processed;
\* so an arrange section with some or all files absent and a split section
\* with its source absent return success, and the outputs are those of the
\* present files only.
C10_AbsentFileIsNotAnError ==
    \A v \in DocVersions : \A k \in 1..Len(sections) :
       LET sec == sections[k]
           key == <<v, sec.name>>
           known == sec.strategy \in {"arrange", "split_markdown_by_heading"}
           noBad == \A f \in DeclaredFiles(sec) : interim[<<v, f>>] # "bad"
       IN
       sec_ret[key] # "none" =>
          /\ output[key].exists
          /\ OutFile("_index.md", k) \in output[key].files
          /\ (known /\ noBad) => sec_ret[key] = "True"
          /\ (sec.strategy = "arrange" /\ sec_ret[key] = "True") =>
                Outputs(key) =
                   { OutFile(DestName(sec.files[i]), i) :
                       i \in { j \in 1..Len(sec.files) :
                                 interim[<<v, sec.files[j].src_file>>] = "ok" } }
          /\ (sec.strategy = "split_markdown_by_heading"
                 /\ interim[<<v, sec.src_file>>] = "absent") =>
                Outputs(key) = {}

\* An arrange section whose first file is absent wrote only the second one,
\* and a split section without its source wrote only its index; both
\* returned True.
C10_Witness ==
    /\ interim[<<"39", "introduction.md">>] = "absent"
    /\ interim[<<"39", "uses.md">>] = "ok"
    /\ interim[<<"39", "design.md">>] = "absent"
    /\ sec_ret[<<"39", "getting-started">>] = "True"
    /\ sec_ret[<<"39", "design">>] = "True"
    /\ output[<<"39", "getting-started">>] =
          Dir({OutFile("_index.md", 1), OutFile("use-cases.md", 2)})
    /\ output[<<"39", "design">>] = Dir({OutFile("_index.md", 2)})

\* The positions of the declared files of an arrange section that the file
\* loop reaches: those before the first file that fails.
RECURSIVE ReachedFiles(_, _, _)
ReachedFiles(v, sec, i) ==
    IF i > Len(sec.files) THEN {}
    ELSE IF interim[<<v, sec.files[i].src_file>>] = "bad" THEN {}
    ELSE {i} \cup ReachedFiles(v, sec, i + 1)

\* What one execution of section k of version v puts in its directory, as a
\* function of the rules and the interim tree alone.
SectionProduct(v, k) ==
    LET sec == sections[k] IN
    {OutFile("_index.md", k)} \cup
    CASE sec.strategy = "arrange" ->
            { OutFile(DestName(sec.files[i]), i) :
                i \in { j \in ReachedFiles(v, sec, 1) :
                          interim[<<v, sec.files[j].src_file>>] = "ok" } }
      [] sec.strategy = "split_markdown_by_heading" ->
            IF interim[<<v, sec.src_file>>] = "ok" THEN SplitOutputs ELSE {}
      [] OTHER -> {}

\* C12: a section directory is fully reset: once ProcessDocSection.execute
\* has returned, the directory holds exactly the files this execution
\* produced, none left by an earlier run, and a further run of the stage on
\* the same inputs leaves every section directory as the run before left it.
C12_SectionDirIsReset ==
    /\ \A v \in DocVersions : \A k \in 1..Len(sections) :
          LET key == <<v, sections[k].name>> IN
          sec_ret[key] # "none" =>
             /\ output[key] = Dir(SectionProduct(v, k))
             /\ \A f \in StaleDir.files : f \notin output[key].files
    /\ (post_pc = "versions_done" /\ post_run > 1) => output = prev_output

\* The stage has run twice over a tree in which an earlier run had left
\* pages: the second run left the non-empty section directories of the first.
C12_Witness ==
    /\ post_pc = "versions_done"
    /\ post_run = 2
    /\ output = prev_output
    /\ output[<<"39", "getting-started">>] =
          Dir({OutFile("_index.md", 1), OutFile("introduction.md", 1),
               OutFile("use-cases.md", 2)})
    /\ output[<<"39", "design">>] =
          Dir({OutFile("_index.md", 2)} \cup SplitOutputs)
    /\ output[<<"40", "apis">>] = Dir({OutFile("_index.md", 3)})

\* C13: declared order determines weight: the index document of a section
\* carries the 1-based position of the section in rules.sections, and every
\* arrange output carries the 1-based position of its entry in the declared
\* files, so an absent file leaves a gap and later files are not renumbered.
C13_WeightIsDeclaredPosition ==
    \A v \in DocVersions : \A k \in 1..Len(sections) :
       LET sec == sections[k]
           key == <<v, sec.name>>
       IN
       sec_ret[key] # "none" =>
          /\ \A f \in output[key].files : f.name = "_index.md" => f.weight = k
          /\ sec.strategy = "arrange" =>
                \A f \in Outputs(key) :
                   \E i \in 1..Len(sec.files) :
                      /\ DestName(sec.files[i]) = f.name
                      /\ interim[<<v, sec.files[i].src_file>>] = "ok"
                      /\ f.weight = i

\* The first declared file of the first section is absent: the second one
\* was written with weight 2, and the third section's index has weight 3.
C13_Witness ==
    /\ interim[<<"40", "introduction.md">>] = "absent"
    /\ interim[<<"40", "uses.md">>] = "ok"
    /\ sec_ret[<<"40", "getting-started">>] = "True"
    /\ sec_ret[<<"40", "apis">>] # "none"
    /\ Outputs(<<"40", "getting-started">>) = {OutFile("use-cases.md", 2)}
    /\ OutFile("_index.md", 3) \in output[<<"40", "apis">>].files

----------------------------------------------------------------------------
(***************************************************************************)
(* ProcessSpecialFiles.execute (src/workflow/processors/special_files.py)  *)
(***************************************************************************)

\* special_file_processors after the register_special_file_processor calls
\* of the module ("streams-introduction" is commented out).
RegisteredNames == {"committers", "powered-by", "blog", "cve-list"}

\* Processor names a rules file may carry.
ProcessorNames == RegisteredNames \cup {"streams-introduction", "no-such-processor"}

\* self.registry.get(self.processor_name)
RegistryGet(name) == IF name \in RegisteredNames THEN name ELSE None

\* What a processor does when called: it writes its output and returns True,
\* returns False, or (a callable of a caller-supplied registry) raises.
ProcessorBehaviours == {"True", "False", "raise"}

\* The output a registered processor writes under output_path.
OutputOf(name) ==
    CASE name = "committers" -> "data/committers.json"
      [] name = "powered-by" -> "data/testimonials.json"
      [] name = "blog"       -> "content/en/blog/releases"
      [] name = "cve-list"   -> "content/en/community/cve-list.md"
      [] OTHER               -> "none"

\* A missing input file made into a failure.
ExistsCheckFailsOnMissing(present) == IF present THEN "lookup" ELSE "return_false"

\* `if not os.path.exists(input_file): return True`
ExistsCheck(present) == IF present THEN "lookup" ELSE "return_true"

\* `except Exception as e: ... return False`
SpecialExceptResult == "False"

InitSpecial ==
    /\ sf_present \in BOOLEAN
    /\ sf_name \in ProcessorNames
    /\ sf_unreadable \in BOOLEAN
    /\ sf_behaviour \in ProcessorBehaviours
    /\ sf_pc = "start"
    /\ sf_processor = "none"
    /\ sf_written = {}
    /\ sf_result = "none"
    /\ IdleWorkflow /\ IdlePreDir /\ IdlePreFile /\ IdlePost /\ IdleSteps
    /\ IdleContext /\ IdleBlog /\ IdleTree

\* input_file = os.path.join(...); if not os.path.exists(input_file): return True
SpecialExists ==
    /\ sf_pc = "start"
    /\ LET next == ExistsCheck(sf_present) IN
       /\ sf_pc' = IF next = "lookup" THEN "lookup" ELSE "done"
       /\ sf_result' = CASE next = "lookup"       -> sf_result
                         [] next = "return_true"  -> "True"
                         [] OTHER                 -> "False"
    /\ UNCHANGED <<sf_present, sf_name, sf_unreadable, sf_behaviour,
                   sf_processor, sf_written>>
    /\ UNCHANGED notSf

\* processor = self.registry.get(...); if not processor: return False
SpecialLookup ==
    /\ sf_pc = "lookup"
    /\ sf_processor' = RegistryGet(sf_name)
    /\ IF RegistryGet(sf_name) = None
       THEN sf_pc' = "done" /\ sf_result' = "False"
       ELSE sf_pc' = "read" /\ UNCHANGED sf_result
    /\ UNCHANGED <<sf_present, sf_name, sf_unreadable, sf_behaviour, sf_written>>
    /\ UNCHANGED notSf

\* with open(input_file, 'r', encoding='utf-8') as f: content = f.read()
SpecialRead ==
    /\ sf_pc = "read"
    /\ IF sf_unreadable
       THEN sf_pc' = "done" /\ sf_result' = SpecialExceptResult
       ELSE sf_pc' = "call" /\ UNCHANGED sf_result
    /\ UNCHANGED <<sf_present, sf_name, sf_unreadable, sf_behaviour,
                   sf_processor, sf_written>>
    /\ UNCHANGED notSf

\* result = processor(content, self.output_path); if not result: return False;
\* return True
SpecialCall ==
    /\ sf_pc = "call"
    /\ sf_pc' = "done"
    /\ sf_result' = CASE sf_behaviour = "True"  -> "True"
                      [] sf_behaviour = "False" -> "False"
                      [] OTHER                  -> SpecialExceptResult
    /\ sf_written' = IF sf_behaviour = "True"
                     THEN sf_written \cup {OutputOf(sf_processor)}
                     ELSE sf_written
    /\ UNCHANGED <<sf_present, sf_name, sf_unreadable, sf_behaviour, sf_processor>>
    /\ UNCHANGED notSf

NextSpecial ==
    \/ SpecialExists
    \/ SpecialLookup
    \/ SpecialRead
    \/ SpecialCall

SpecSpecial == InitSpecial /\ [][NextSpecial]_vars

\* C11 as stated: a missing input file gives success and writes nothing, an
\* unregistered processor name gives failure, whatever the combination of
\* the two, and execute never raises.
C11_MissingSucceedsUnregisteredFails ==
    /\ sf_result # "raised"
    /\ sf_pc = "done" =>
          /\ ~sf_present => (sf_result = "True" /\ sf_written = {})
          /\ sf_name \notin RegisteredNames => sf_result = "False"

\* C11 (amended): execute never raises; a missing input file gives success
\* and writes nothing, registered or not; an unregistered processor name
\* gives failure, with nothing written, when the input file is present.
C11_SpecialFiles ==
    /\ sf_result # "raised"
    /\ sf_pc = "done" =>
          /\ sf_result \in {"True", "False"}
          /\ ~sf_present => (sf_result = "True" /\ sf_written = {})
          /\ (sf_present /\ sf_name \notin RegisteredNames) =>
                (sf_result = "False" /\ sf_written = {})

\* The file is missing and the processor name is not registered: execute
\* returned True without looking the name up.
C11_Witness ==
    /\ sf_pc = "done"
    /\ ~sf_present
    /\ sf_name = "no-such-processor"
    /\ sf_processor = "none"
    /\ sf_result = "True"
    /\ sf_written = {}

----------------------------------------------------------------------------
(***************************************************************************)
(* Text.  A Python str is a sequence of tokens: NL is "\n", " " a blank,   *)
(* "#", "-", ".", ":" themselves, "1".."9" a digit, "<!--" and "-->" the   *)
(* comment delimiters, and any other token a run of characters that no     *)
(* pattern of the code looks into.                                         *)
(***************************************************************************)
NL == "\n"

MinOf(S) == CHOOSE x \in S : \A y \in S : x <= y

\* The first position >= from of s that holds tok (0: none).
FirstAt(s, tok, from) ==
    LET hits == { i \in from..Len(s) : s[i] = tok }
    IN IF hits = {} THEN 0 ELSE MinOf(hits)

\* The first position >= from of s that does not hold tok (Len(s)+1: none).
FirstNotAt(s, tok, from) ==
    LET hits == { i \in from..Len(s) : s[i] # tok }
    IN IF hits = {} THEN Len(s) + 1 ELSE MinOf(hits)

\* s[from:] of Python (from is 1-based here).
From(s, from) == SubSeq(s, from, Len(s))

\* content.split('\n')
RECURSIVE SplitLines(_)
SplitLines(s) ==
    LET i == FirstAt(s, NL, 1) IN
    IF i = 0 THEN <<s>>
    ELSE <<SubSeq(s, 1, i - 1)>> \o SplitLines(From(s, i + 1))

\* '\n'.join(lines)
RECURSIVE JoinLines(_)
JoinLines(lines) ==
    IF Len(lines) = 0 THEN << >>
    ELSE IF Len(lines) = 1 THEN lines[1]
    ELSE lines[1] \o <<NL>> \o JoinLines(Tail(lines))

\* The documents of at most n lines drawn from a set of lines.
Documents(lines, n) ==
    { JoinLines(ls) : ls \in UNION { [1..k -> lines] : k \in 0..n } }

\* The content a chain of steps has reached.
Content == md_history[Len(md_history)]

\* The step the chain is about to execute ("<None>": the chain is exhausted,
\* or a step is under way).
CurrentStep ==
    IF md_pc = "step" /\ md_i \in 1..Len(md_chain) THEN md_chain[md_i] ELSE None

----------------------------------------------------------------------------
(***************************************************************************)
(* update_front_matter (src/utils.py)                                      *)
(***************************************************************************)

\* re.sub(r'<!--.*?-->\n*', '', content, flags=re.DOTALL), from position p:
\* the shortest comment from the first "<!--", with the newlines after it.
RECURSIVE StripCommentsFrom(_, _)
StripCommentsFrom(s, p) ==
    LET i == FirstAt(s, "<!--", p)
        j == IF i = 0 THEN 0 ELSE FirstAt(s, "-->", i + 1)
    IN IF j = 0 THEN From(s, p)
       ELSE SubSeq(s, p, i - 1) \o StripCommentsFrom(s, FirstNotAt(s, NL, j + 1))

StripComments(s) == StripCommentsFrom(s, 1)

\* `^---\n` at position p (re.MULTILINE: p starts a line).
FrontMatterOpensAt(s, p) ==
    /\ p = 1 \/ s[p - 1] = NL
    /\ p + 3 <= Len(s)
    /\ s[p] = "-" /\ s[p + 1] = "-" /\ s[p + 2] = "-" /\ s[p + 3] = NL

\* `\n---` at position q.
FrontMatterClosesAt(s, q) ==
    /\ q + 3 <= Len(s)
    /\ s[q] = NL /\ s[q + 1] = "-" /\ s[q + 2] = "-" /\ s[q + 3] = "-"

\* The end of the `.*?\n---` that follows an opening at p (0: none): the
\* first closing at or after the end of the opening line.
FrontMatterClose(s, p) ==
    LET hits == { q \in (p + 4)..Len(s) : FrontMatterClosesAt(s, q) }
    IN IF hits = {} THEN 0 ELSE MinOf(hits)

\* re.sub(r'^---\n.*?\n---\n*', '', content, flags=re.DOTALL | re.MULTILINE),
\* scanning at p with s[c..p-1] still to be copied: every block is removed
\* together with the newlines after its closing fence.
RECURSIVE StripFrontMatterFrom(_, _, _)
StripFrontMatterFrom(s, p, c) ==
    IF p > Len(s) THEN From(s, c)
    ELSE IF FrontMatterOpensAt(s, p) /\ FrontMatterClose(s, p) # 0
         THEN LET e == FirstNotAt(s, NL, FrontMatterClose(s, p) + 4)
              IN SubSeq(s, c, p - 1) \o StripFrontMatterFrom(s, e, e)
         ELSE StripFrontMatterFrom(s, p + 1, c)

StripFrontMatter(s) == StripFrontMatterFrom(s, 1, 1)

\* The number of blocks the pattern of StripFrontMatter finds from p on.
RECURSIVE CountFrontMatterFrom(_, _)
CountFrontMatterFrom(s, p) ==
    IF p > Len(s) THEN 0
    ELSE IF FrontMatterOpensAt(s, p) /\ FrontMatterClose(s, p) # 0
         THEN 1 + CountFrontMatterFrom(s,
                     FirstNotAt(s, NL, FrontMatterClose(s, p) + 4))
         ELSE CountFrontMatterFrom(s, p + 1)

\* template.format(**values): every "{key}" token becomes its value.
RECURSIVE Format(_, _)
Format(template, values) ==
    IF template = << >> THEN << >>
    ELSE (IF Head(template) \in DOMAIN values
          THEN values[Head(template)] ELSE <<Head(template)>>)
         \o Format(Tail(template), values)

\* _get_front_matter(context, values)
get_front_matter(context, values) == Format(context.front_matter.template, values)

\* update_front_matter(content, context): the new content.
update_front_matter(content, context) ==
    get_front_matter(context, context.template_values)
       \o <<NL>> \o StripFrontMatter(StripComments(content))

\* Templates rules['front_matter'] may carry: a block delimited by "---"
\* lines, ending with or without a newline.
FrontMatterTemplates ==
    { <<"-", "-", "-", NL, "title: ", "{title}", NL,
        "weight: ", "{weight}", NL, "-", "-", "-">> \o tail
      : tail \in { << >>, <<NL>> } }

\* template_values of a file.
TemplateValues == ("{title}" :> <<"Design">>) @@ ("{weight}" :> <<"1">>)

\* Lines of the documents the step is given.
FrontMatterLines ==
    { << >>, <<"body">>, <<"-", "-", "-">>, <<"-", "-", "-", "x">>,
      <<"<!--", "c", "-->">>, <<"title: ", "Old">> }

\* Lines in the documents update_front_matter is given.
MaxFrontMatterLines == 4

InitFrontMatter ==
    /\ md_chain = <<"update_front_matter", "update_front_matter">>
    /\ md_i = 1
    /\ md_pc = "step"
    /\ processed_content = << >>
    /\ md_context \in { [front_matter |-> [template |-> t],
                         template_values |-> TemplateValues]
                        : t \in FrontMatterTemplates }
    /\ md_history \in { <<d>> : d \in Documents(FrontMatterLines, MaxFrontMatterLines) }
    /\ md_files = << >>
    /\ IdleWorkflow /\ IdlePreDir /\ IdlePreFile /\ IdlePost /\ IdleSpecial
    /\ IdleContext /\ IdleBlog /\ IdleTree

\* content, context = execute_step(update_front_matter, content, context)
StepUpdateFrontMatter ==
    /\ CurrentStep = "update_front_matter"
    /\ md_history' = Append(md_history, update_front_matter(Content, md_context))
    /\ md_i' = md_i + 1
    /\ UNCHANGED <<md_chain, md_pc, processed_content, md_context, md_files>>
    /\ UNCHANGED notMd

NextFrontMatter == StepUpdateFrontMatter

SpecFrontMatter == InitFrontMatter /\ [][NextFrontMatter]_vars

\* C14: the front-matter step is idempotent: applied to its own output with
\* the same context it returns that output unchanged, and its output holds
\* exactly one metadata block, for every input document.
C14_FrontMatterIdempotent ==
    Len(md_history) = 3 =>
       /\ md_history[3] = md_history[2]
       /\ CountFrontMatterFrom(md_history[2], 1) = 1

----------------------------------------------------------------------------
(***************************************************************************)
(* process_markdown_headings (src/utils.py)                                *)
(***************************************************************************)
MaxOf(S) == CHOOSE x \in S : \A y \in S : x >= y

\* tok * n
Rep(tok, n) == [i \in 1..n |-> tok]

\* The number of tok at the start of s.
LeadingCount(s, tok) == FirstNotAt(s, tok, 1) - 1

\* str.lstrip / rstrip / strip over blanks.
LStrip(s) == From(s, FirstNotAt(s, " ", 1))

RStrip(s) ==
    LET keep == { i \in 1..Len(s) : s[i] # " " }
    IN IF keep = {} THEN << >> ELSE SubSeq(s, 1, MaxOf(keep))

Strip(s) == LStrip(RStrip(s))

\* \d
Digits == {"1", "2", "3", "4", "5", "6", "7", "8", "9"}

\* re.match(r'^(#{1,6})\s+(.+)$', line): one to six '#', at least one blank,
\* at least one more character.
HeadingMatches(line) ==
    LET h    == LeadingCount(line, "#")
        rest == From(line, h + 1)
    IN /\ h \in 1..6
       /\ rest # << >> /\ rest[1] = " "
       /\ LStrip(rest) # << >> \/ Len(rest) >= 2

\* len(match.group(1))
HeadingLevel(line) == LeadingCount(line, "#")

\* match.group(2): what follows the greedy \s+ (its last blank when nothing
\* else follows).
HeadingGroup2(line) ==
    LET rest == From(line, HeadingLevel(line) + 1)
    IN IF LStrip(rest) # << >> THEN LStrip(rest) ELSE <<" ">>

\* heading_text = heading_match.group(2).strip()
HeadingText(line) == Strip(HeadingGroup2(line))

\* A bump without the floor at level 1.
NewLevelWithoutFloor(level) == level - 1

\* new_level = max(1, level - 1)
NewLevel(level) == IF level - 1 >= 1 THEN level - 1 ELSE 1

\* bump_heading_level(match)
bump_heading_level(line) ==
    Rep("#", NewLevel(HeadingLevel(line))) \o <<" ">> \o HeadingGroup2(line)

MigrationTitle == <<"ZooKeeper to KRaft Migration">>

\* "Tiered Storage" in heading_text
NamesTieredStorage(text) == \E i \in 1..Len(text) : text[i] = "Tiered Storage"

\* The heading at which the migration section is left.
ExitsMigration(line) ==
    \/ NamesTieredStorage(HeadingText(line))
    \/ HeadingLevel(line) = 2 /\ ~NamesTieredStorage(HeadingText(line))

\* The loop `for line in lines` of the up_level branch, in_migration_section
\* being the flag before the first of the lines.
RECURSIVE UpLevelLines(_, _)
UpLevelLines(lines, in_migration_section) ==
    IF lines = << >> THEN << >>
    ELSE LET line == Head(lines)
             text == HeadingText(line)
         IN
         IF ~HeadingMatches(line)
         THEN <<line>> \o UpLevelLines(Tail(lines), in_migration_section)
         ELSE IF text = MigrationTitle
         THEN << <<"#", "#", "#", " ">> \o text >> \o UpLevelLines(Tail(lines), TRUE)
         ELSE IF in_migration_section /\ ExitsMigration(line)
         THEN <<bump_heading_level(line)>> \o UpLevelLines(Tail(lines), FALSE)
         ELSE IF in_migration_section
         THEN << IF HeadingLevel(line) >= 2
                 THEN <<"#", "#", "#", "#", " ">> \o text
                 ELSE line >>
              \o UpLevelLines(Tail(lines), TRUE)
         ELSE <<bump_heading_level(line)>> \o UpLevelLines(Tail(lines), FALSE)

\* (\.\d+)* from position p of s: the position after it.
RECURSIVE DottedNumbersEnd(_, _)
DottedNumbersEnd(s, p) ==
    IF p + 1 <= Len(s) /\ s[p] = "." /\ s[p + 1] \in Digits
    THEN DottedNumbersEnd(s,
            MinOf({ i \in (p + 1)..(Len(s) + 1) : i > Len(s) \/ s[i] \notin Digits }))
    ELSE p

\* re.sub(r'^\d+(\.\d+)*[.:]*\s*', '', heading_text)
StripNumeric(text) ==
    IF text = << >> \/ text[1] \notin Digits THEN text
    ELSE LET a == MinOf({ i \in 1..(Len(text) + 1) :
                            i > Len(text) \/ text[i] \notin Digits })
             b == DottedNumbersEnd(text, a)
             c == MinOf({ i \in b..(Len(text) + 1) :
                            i > Len(text) \/ text[i] \notin {".", ":"} })
         IN From(text, FirstNotAt(text, " ", c))

\* heading_pattern.sub(remove_numeric_heading, processed_content) with
\* heading_pattern = r'^(#{1,6})\s*(.*)' (re.MULTILINE), line by line: group 1
\* is at most six '#'; \s* runs over blanks and newlines, so when only blanks
\* follow the '#' it runs on to the next line that holds anything else, and
\* group 2 is the rest of the line it stops in.
RECURSIVE RemoveNumericLines(_)
RemoveNumericLines(lines) ==
    IF lines = << >> THEN << >>
    ELSE LET line == Head(lines)
             h    == LeadingCount(line, "#")
             k    == IF h > 6 THEN 6 ELSE h
             rest == LStrip(From(line, k + 1))
             more == { j \in 2..Len(lines) : LStrip(lines[j]) # << >> }
         IN
         IF h = 0 THEN <<line>> \o RemoveNumericLines(Tail(lines))
         ELSE IF rest # << >>
         THEN << Rep("#", k) \o <<" ">> \o StripNumeric(rest) >>
              \o RemoveNumericLines(Tail(lines))
         ELSE IF more = {} THEN << Rep("#", k) \o <<" ">> >>
         ELSE << Rep("#", k) \o <<" ">> \o StripNumeric(LStrip(lines[MinOf(more)])) >>
              \o RemoveNumericLines(From(lines, MinOf(more) + 1))

\* processed_content after `if up_level:` (context.get('up_level', False)).
UpLevelPass(content, context) ==
    IF context.up_level
    THEN JoinLines(UpLevelLines(SplitLines(content), FALSE))
    ELSE content

\* processed_content after `if remove_numeric:`.
RemoveNumericPass(processed, context) ==
    IF context.remove_numeric
    THEN JoinLines(RemoveNumericLines(SplitLines(processed)))
    ELSE processed

\* process_markdown_headings(content, context): the new content.
process_markdown_headings(content, context) ==
    RemoveNumericPass(UpLevelPass(content, context), context)

\* Lines of the Markdown documents the heading step is given: text, a blank
\* line, headings of levels 1, 2, 3 and 6 with and without a numeric prefix,
\* a heading with two blanks after the marker, a heading whose text is blank,
\* and the two headings that delimit the migration section.
HeadingLines ==
    { << >>, <<"body">>,
      <<"#", " ", "Foo">>,
      <<"#", "#", " ", "2", ".", "3", " ", "Foo">>,
      <<"#", "#", "#", " ", "Foo">>,
      <<"#", "#", "#", "#", "#", "#", " ", "1", ".", " ", "Foo">>,
      <<"#", "#", " ", " ", "Foo">>,
      <<"#", "#", " ", " ">>,
      <<"#", "#", " ", "ZooKeeper to KRaft Migration">>,
      <<"#", "#", "#", " ", "Tiered Storage">> }

\* Lines in the documents process_markdown_headings is given.
MaxHeadingLines == 3

\* The contexts of the callers: both flags set (PreProcessFile.execute,
\* ProcessDocVersion.execute), or one of them left out.
HeadingContexts ==
    { [up_level |-> u, remove_numeric |-> r] :
        <<u, r>> \in {<<TRUE, TRUE>>, <<TRUE, FALSE>>, <<FALSE, TRUE>>} }

InitHeadings ==
    /\ md_chain = <<"process_markdown_headings", "process_markdown_headings">>
    /\ md_i = 1
    /\ md_pc = "step"
    /\ processed_content = << >>
    /\ md_context \in HeadingContexts
    /\ md_history \in { <<d>> : d \in Documents(HeadingLines, MaxHeadingLines) }
    /\ md_files = << >>
    /\ IdleWorkflow /\ IdlePreDir /\ IdlePreFile /\ IdlePost /\ IdleSpecial
    /\ IdleContext /\ IdleBlog /\ IdleTree

\* process_markdown_headings up to the end of its `if up_level:` branch.
StepHeadingsUpLevel ==
    /\ CurrentStep = "process_markdown_headings"
    /\ processed_content' = UpLevelPass(Content, md_context)
    /\ md_pc' = "remove_numeric"
    /\ UNCHANGED <<md_chain, md_i, md_context, md_history, md_files>>
    /\ UNCHANGED notMd

\* process_markdown_headings from `if remove_numeric:` to its return.
StepHeadingsRemoveNumeric ==
    /\ md_pc = "remove_numeric"
    /\ md_history' = Append(md_history,
                            RemoveNumericPass(processed_content, md_context))
    /\ md_i' = md_i + 1
    /\ md_pc' = "step"
    /\ UNCHANGED <<md_chain, processed_content, md_context, md_files>>
    /\ UNCHANGED notMd

NextHeadings ==
    \/ StepHeadingsUpLevel
    \/ StepHeadingsRemoveNumeric

SpecHeadings == InitHeadings /\ [][NextHeadings]_vars

\* in_migration_section before line i of the lines is processed.
RECURSIVE InMigrationBefore(_, _)
InMigrationBefore(lines, i) ==
    IF i = 1 THEN FALSE
    ELSE LET line == lines[i - 1]
             flag == InMigrationBefore(lines, i - 1)
         IN IF ~HeadingMatches(line) THEN flag
            ELSE IF HeadingText(line) = MigrationTitle THEN TRUE
            ELSE IF flag /\ ExitsMigration(line) THEN FALSE
            ELSE flag

\* Line i is a heading outside the carve-out: not the heading that opens the
\* migration section, and not a heading inside that section.
HeadingOutsideCarveOut(lines, i) ==
    /\ HeadingMatches(lines[i])
    /\ HeadingText(lines[i]) # MigrationTitle
    /\ ~InMigrationBefore(lines, i) \/ ExitsMigration(lines[i])

\* The up-level pass took the headings of `before` outside the carve-out one
\* level up, with level 1 as the floor, and kept their text.
BumpedByOne(before, after) ==
    /\ Len(after) = Len(before)
    /\ \A i \in 1..Len(before) :
          HeadingOutsideCarveOut(before, i) =>
             /\ HeadingMatches(after[i])
             /\ HeadingLevel(after[i]) >= 1
             /\ HeadingLevel(after[i]) =
                   (IF HeadingLevel(before[i]) = 1 THEN 1
                    ELSE HeadingLevel(before[i]) - 1)
             /\ HeadingText(after[i]) = HeadingText(before[i])

TextAfterHashes(line) == Strip(From(line, LeadingCount(line, "#") + 1))

\* The remove-numeric pass left line `after` for the heading `before`: the
\* same level, and the text of `before` less its numeric prefix, if it has
\* one (blanks around the text are not compared).
PrefixRemoved(before, after) ==
    /\ LeadingCount(after, "#") = HeadingLevel(before)
    /\ TextAfterHashes(after) =
          (IF HeadingText(before) # << >> /\ HeadingText(before)[1] \in Digits
           THEN Strip(StripNumeric(HeadingText(before)))
           ELSE HeadingText(before))

\* C16: with remove_numeric set, process_markdown_headings returns every
\* heading that has a leading numeric prefix as the heading of the same level
\* without the prefix, and every heading without a leading numeral as it was;
\* the lines stay the lines they were.
C16_NumericPrefixRemoved ==
    (md_context.remove_numeric /\ md_pc = "step" /\ Len(md_history) >= 2) =>
       LET before == SplitLines(processed_content)
           after  == SplitLines(Content)
       IN /\ Len(after) = Len(before)
          /\ \A i \in 1..Len(before) :
                HeadingMatches(before[i]) => PrefixRemoved(before[i], after[i])

\* ---------------------------------------------------------------------------
\* process_markdown_links (src/utils.py).  A link is the token "[", one token
\* of link text, the token "](", the tokens of the url and the token ")".
\* ---------------------------------------------------------------------------

\* `needle in s` for strings.
Contains(s, needle) ==
    \E p \in 1..(Len(s) - Len(needle) + 1) :
        SubSeq(s, p, p + Len(needle) - 1) = needle

\* s.startswith(prefix)
StartsWith(s, prefix) ==
    Len(prefix) <= Len(s) /\ SubSeq(s, 1, Len(prefix)) = prefix

\* re.sub(search_string, value, url), the search string being literal text.
RECURSIVE Substitute(_, _, _)
Substitute(url, search_string, value) ==
    IF url = << >> THEN << >>
    ELSE IF search_string # << >> /\ StartsWith(url, search_string)
    THEN value \o Substitute(From(url, Len(search_string) + 1), search_string, value)
    ELSE <<Head(url)>> \o Substitute(Tail(url), search_string, value)

\* The url replace_link gives a link.
ReplaceUrl(url, update) ==
    IF /\ update.action = "prefix"
       /\ Contains(url, update.search_str)
       /\ ~StartsWith(url, update.value)
    THEN update.value \o url
    ELSE IF update.action = "replace" /\ Contains(url, update.search_str)
    THEN update.value
    ELSE IF update.action = "substitute"
    THEN Substitute(url, update.search_str, update.value)
    ELSE url

\* The position of the ")" that closes the link opening at p, 0 if no link
\* opens at p: r'\[([^\]]+)\]\(([^)]+)\)'.
LinkEnd(s, p) ==
    IF /\ p + 4 <= Len(s)
       /\ s[p] = "["
       /\ s[p + 1] \notin {"]", "]("}
       /\ s[p + 2] = "]("
       /\ s[p + 3] # ")"
       /\ \E q \in (p + 4)..Len(s) : s[q] = ")"
    THEN FirstAt(s, ")", p + 4)
    ELSE 0

\* link_pattern.sub(replace_link, content) from position p.
RECURSIVE UpdateLinksFrom(_, _, _)
UpdateLinksFrom(s, p, update) ==
    IF p > Len(s) THEN << >>
    ELSE IF LinkEnd(s, p) # 0
    THEN SubSeq(s, p, p + 2)
            \o ReplaceUrl(SubSeq(s, p + 3, LinkEnd(s, p) - 1), update)
            \o <<")">> \o UpdateLinksFrom(s, LinkEnd(s, p) + 1, update)
    ELSE <<s[p]>> \o UpdateLinksFrom(s, p + 1, update)

\* _update_links_in_markdown(content, search_string, value, action)
update_links_in_markdown(content, update) == UpdateLinksFrom(content, 1, update)

\* `for update in link_updates` from update k on.
RECURSIVE LinkUpdatesFrom(_, _, _)
LinkUpdatesFrom(content, link_updates, k) ==
    IF k > Len(link_updates) THEN content
    ELSE LinkUpdatesFrom(update_links_in_markdown(content, link_updates[k]),
                         link_updates, k + 1)

\* process_markdown_links(content, context): the new content.
process_markdown_links(content, context) ==
    LinkUpdatesFrom(content, context.link_updates, 1)

\* rules['link_updates'] of the runs modelled.
LinkUpdates ==
    << [search_str |-> <<"/documentation">>, action |-> "prefix",
        value |-> <<"/40">>] >>

\* ---------------------------------------------------------------------------
\* split_markdown_by_heading and the functions it calls (src/utils.py).
\* ---------------------------------------------------------------------------

\* str.lower() of the tokens that have upper-case letters.
Lower(tok) ==
    CASE tok = "Foo" -> "foo"
      [] tok = "Bar" -> "bar"
      [] tok = "Sub" -> "sub"
      [] tok = "Top" -> "top"
      [] OTHER -> tok

\* The tokens of s outside the set drop.
Without(s, drop) == SelectSeq(s, LAMBDA tok : tok \notin drop)

\* re.sub(r'[\s\._,;]+', '-', text) and re.sub(r'[/\\]+', '-', text): each
\* run of tokens of the set becomes one "-".
RECURSIVE RunsToHyphen(_, _)
RunsToHyphen(s, set) ==
    IF s = << >> THEN << >>
    ELSE IF Head(s) \in set
    THEN <<"-">> \o RunsToHyphen(From(s, MinOf({ i \in 1..(Len(s) + 1) :
                                        i > Len(s) \/ s[i] \notin set })), set)
    ELSE <<Head(s)>> \o RunsToHyphen(Tail(s), set)

\* text.strip('-')
RECURSIVE StripHyphens(_)
StripHyphens(s) ==
    IF s # << >> /\ Head(s) = "-" THEN StripHyphens(Tail(s))
    ELSE IF s # << >> /\ s[Len(s)] = "-" THEN StripHyphens(SubSeq(s, 1, Len(s) - 1))
    ELSE s

\* sanitize_filename(text), for texts of at most 200 characters.
sanitize_filename(text) ==
    LET removed == Without(Strip(text), {":", "?", "*", "|", "<", ">", "\"", "'"})
        slashes == RunsToHyphen(removed, {"/", "\\"})
        hyphens == RunsToHyphen(slashes, {" ", NL, ".", "_", ",", ";"})
        bare    == StripHyphens(hyphens)
    IN [i \in 1..Len(bare) |-> Lower(bare[i])]

\* re.sub(r'[:;,\s]+$', '', text)
RECURSIVE StripTrailingPunctuation(_)
StripTrailingPunctuation(s) ==
    IF s # << >> /\ s[Len(s)] \in {":", ";", ",", " ", NL}
    THEN StripTrailingPunctuation(SubSeq(s, 1, Len(s) - 1))
    ELSE s

\* sanitize_yaml_title(text)
sanitize_yaml_title(text) == Strip(StripTrailingPunctuation(Strip(text)))

\* Line i of the lines is the first line that starts with "# " or "## ".
FirstHeadingIndex(lines) ==
    LET found == { i \in 1..Len(lines) :
                     \/ StartsWith(lines[i], <<"#", " ">>)
                     \/ StartsWith(lines[i], <<"#", "#", " ">>) }
    IN IF found = {} THEN 0 ELSE MinOf(found)

\* The lines from position p on, less the empty lines they begin with.
RECURSIVE DropEmptyLines(_, _)
DropEmptyLines(lines, p) ==
    IF p <= Len(lines) /\ Strip(lines[p]) = << >>
    THEN DropEmptyLines(lines, p + 1)
    ELSE From(lines, p)

\* remove_duplicate_title_heading(content, context): the new content.
remove_duplicate_title_heading(content, context) ==
    LET title == Strip(context.template_values["{title}"])
        lines == SplitLines(content)
        first_heading_index == FirstHeadingIndex(lines)
        first_heading_text ==
            Strip(From(lines[first_heading_index],
                       LeadingCount(lines[first_heading_index], "#") + 2))
    IN IF title = << >> THEN content
       ELSE IF first_heading_index # 0 /\ first_heading_text = title
       THEN JoinLines(SubSeq(lines, 1, first_heading_index - 1)
                        \o DropEmptyLines(lines, first_heading_index + 1))
       ELSE content

\* str(counter) in the front matter.
NumberToken(n) == <<"1", "2", "3", "4", "5", "6", "7", "8", "9">>[n]

\* heading_pattern.match(line): rf'^({"#" * heading_level} )(.+)$'
SplitHeadingMatches(line, heading_level) ==
    /\ Len(line) >= heading_level + 2
    /\ SubSeq(line, 1, heading_level + 1) = Rep("#", heading_level) \o <<" ">>

\* match.group(2).strip()
SplitHeadingText(line, heading_level) == Strip(From(line, heading_level + 2))

\* The context write_to_file leaves: context["template_values"] = ...
WriteContext(title, counter, context) ==
    [context EXCEPT !.template_values =
        ("{title}" :> sanitize_yaml_title(title))
           @@ ("{weight}" :> <<NumberToken(counter)>>)]

\* write_to_file(title, content): the files of the section directory after it.
\* A file is its weight, the lines write_to_file was given and the text
\* written; a file of the same name is overwritten.
write_to_file(title, content, counter, context, files) ==
    LET headings == process_markdown_headings(JoinLines(content), context)
        links    == process_markdown_links(headings, context)
        written  == WriteContext(title, counter, context)
        fronted  == update_front_matter(links, written)
        text     == remove_duplicate_title_heading(fronted, written)
    IN ((sanitize_filename(title) \o <<".md">>)
           :> [weight |-> counter, lines |-> content, text |-> text])
       @@ files

\* `for line in lines` of split_markdown_by_heading from line i on, and the
\* write that follows the loop: the files and the context at the return.
\* current_title is << >> for None and for '', which the code does not
\* tell apart (`if current_title:`).
RECURSIVE SplitLoop(_, _, _, _, _, _, _)
SplitLoop(lines, i, out, current_title, counter, context, files) ==
    LET heading_level == context.section.strategy_params[1]
    IN IF i > Len(lines)
       THEN IF current_title # << >>
            THEN [files |-> write_to_file(current_title, out, counter, context, files),
                  context |-> WriteContext(current_title, counter, context)]
            ELSE [files |-> files, context |-> context]
       ELSE IF SplitHeadingMatches(lines[i], heading_level)
       THEN IF current_title # << >>
            THEN SplitLoop(lines, i + 1, <<lines[i]>>,
                           SplitHeadingText(lines[i], heading_level), counter + 1,
                           WriteContext(current_title, counter, context),
                           write_to_file(current_title, out, counter, context, files))
            ELSE SplitLoop(lines, i + 1, <<lines[i]>>,
                           SplitHeadingText(lines[i], heading_level), counter,
                           context, files)
       ELSE SplitLoop(lines, i + 1, Append(out, lines[i]), current_title,
                      counter, context, files)

\* split_markdown_by_heading(content, context)
split_markdown_by_heading(content, context) ==
    SplitLoop(SplitLines(content), 1, << >>, << >>, 1, context, << >>)

\* Lines of the documents split_markdown_by_heading is given: text, a blank
\* line, a link, and headings of levels 1 to 3, two of them with the same
\* file name ("Foo" and "Foo:").
SplitDocumentLines ==
    { << >>, <<"body">>, <<"more">>,
      <<"[", "link", "](", "/documentation", "/x", ")">>,
      <<"#", " ", "Top">>,
      <<"#", "#", " ", "Foo">>,
      <<"#", "#", " ", "Foo", ":">>,
      <<"#", "#", " ", "Bar">>,
      <<"#", "#", "#", " ", "Sub">> }

\* Lines in the documents split_markdown_by_heading is given.
MaxSplitLines == 3

\* The context ProcessDocSection._execute_split_strategy passes: the flags of
\* ProcessDocVersion.execute, the rules' front matter and link updates, and
\* the heading level of the section's strategy_params.
SplitContexts ==
    { [up_level |-> TRUE, remove_numeric |-> TRUE,
       link_updates |-> LinkUpdates,
       front_matter |-> [template |-> t],
       section |-> [strategy_params |-> <<heading_level>>],
       template_values |-> ("{title}" :> <<"Design">>) @@ ("{weight}" :> <<"1">>)]
      : t \in FrontMatterTemplates, heading_level \in {1, 2} }

InitSplit ==
    /\ md_chain = <<"split_markdown_by_heading">>
    /\ md_i = 1
    /\ md_pc = "step"
    /\ processed_content = << >>
    /\ md_context \in SplitContexts
    /\ md_history \in { <<d>> : d \in Documents(SplitDocumentLines, MaxSplitLines) }
    /\ md_files = << >>
    /\ IdleWorkflow /\ IdlePreDir /\ IdlePreFile /\ IdlePost /\ IdleSpecial
    /\ IdleContext /\ IdleBlog /\ IdleTree

\* _, self.context = execute_step(split_markdown_by_heading, content, self.context)
StepSplit ==
    /\ CurrentStep = "split_markdown_by_heading"
    /\ LET done == split_markdown_by_heading(Content, md_context)
       IN /\ md_files' = done.files
          /\ md_context' = done.context
    /\ md_history' = Append(md_history, << >>)
    /\ md_i' = md_i + 1
    /\ UNCHANGED <<md_chain, md_pc, processed_content>>
    /\ UNCHANGED notMd

NextSplit == StepSplit

SpecSplit == InitSplit /\ [][NextSplit]_vars

\* The lines of the lines that are not blank.
NonBlankLines(lines) == SelectSeq(lines, LAMBDA line : Strip(line) # << >>)

\* The lines the files of weight w and more were written from, in weight
\* order.
RECURSIVE FragmentsFrom(_, _)
FragmentsFrom(files, w) ==
    IF \A n \in DOMAIN files : files[n].weight < w THEN << >>
    ELSE (IF \E n \in DOMAIN files : files[n].weight = w
          THEN files[CHOOSE n \in DOMAIN files : files[n].weight = w].lines
          ELSE << >>)
         \o FragmentsFrom(files, w + 1)

\* C17: split_markdown_by_heading partitions the document: the lines the
\* emitted files were written from, taken in weight order, are the lines of
\* the document (blank lines aside), also the lines before the first heading
\* of the split level and the lines under headings with the same file name.
C17_SplitPartitionsDocument ==
    (md_chain = <<"split_markdown_by_heading">> /\ md_i = 2) =>
       NonBlankLines(FragmentsFrom(md_files, 1))
          = NonBlankLines(SplitLines(md_history[1]))

\* ---------------------------------------------------------------------------
\* HandleBarsContextBuilder.get_context (src/utils.py) and, from the standard
\* library it calls, difflib.get_close_matches.  A path is a sequence of
\* characters of fewer than 200 characters, so no character is junk.
\* ---------------------------------------------------------------------------

\* The length of the longest common run from a[i] and b[j] within a[..ahi]
\* and b[..bhi].
RECURSIVE RunLength(_, _, _, _, _, _)
RunLength(a, i, ahi, b, j, bhi) ==
    IF i <= ahi /\ j <= bhi /\ a[i] = b[j]
    THEN 1 + RunLength(a, i + 1, ahi, b, j + 1, bhi)
    ELSE 0

\* SequenceMatcher.find_longest_match(alo, ahi, blo, bhi): <<i, j, k>>; of
\* the longest blocks the one that starts earliest in a, and of those the
\* one that starts earliest in b.
find_longest_match(a, alo, ahi, b, blo, bhi) ==
    LET k(i, j) == RunLength(a, i, ahi, b, j, bhi)
        pairs   == (alo..ahi) \X (blo..bhi)
        longest == MaxOf({0} \cup { k(p[1], p[2]) : p \in pairs })
        i0 == MinOf({ p[1] : p \in { q \in pairs : k(q[1], q[2]) = longest } })
        j0 == MinOf({ j \in blo..bhi : k(i0, j) = longest })
    IN IF longest = 0 THEN <<alo, blo, 0>> ELSE <<i0, j0, longest>>

\* The sum of the sizes of get_matching_blocks() within a[alo..ahi] and
\* b[blo..bhi]: the longest block, and the blocks to its left and right.
RECURSIVE Matches(_, _, _, _, _, _)
Matches(a, alo, ahi, b, blo, bhi) ==
    IF alo > ahi \/ blo > bhi THEN 0
    ELSE LET m == find_longest_match(a, alo, ahi, b, blo, bhi)
         IN IF m[3] = 0 THEN 0
            ELSE m[3] + Matches(a, alo, m[1] - 1, b, blo, m[2] - 1)
                      + Matches(a, m[1] + m[3], ahi, b, m[2] + m[3], bhi)

\* The characters a and b have in common, counted with multiplicity
\* (quick_ratio).
CommonCount(a, b) ==
    LET occurrences(s, c) == Cardinality({ i \in 1..Len(s) : s[i] = c })
        chars == { a[i] : i \in 1..Len(a) }
        RECURSIVE Sum(_)
        Sum(S) == IF S = {} THEN 0
                  ELSE LET c == CHOOSE x \in S : TRUE
                       IN MinOf({occurrences(a, c), occurrences(b, c)})
                             + Sum(S \ {c})
    IN Sum(chars)

\* _calculate_ratio(matches, length) >= cutoff, the cutoff being the fraction
\* cutoff[1] / cutoff[2].
RatioAtLeast(matches, length, cutoff) ==
    IF length = 0 THEN TRUE
    ELSE 2 * matches * cutoff[2] >= cutoff[1] * length

\* The three tests of get_close_matches for possibility x and the word.
ClearsCutoff(x, word, cutoff) ==
    LET length == Len(x) + Len(word)
    IN /\ RatioAtLeast(MinOf({Len(x), Len(word)}), length, cutoff)
       /\ RatioAtLeast(CommonCount(x, word), length, cutoff)
       /\ RatioAtLeast(Matches(x, 1, Len(x), word, 1, Len(word)), length, cutoff)

\* ord() of the characters of the paths.
Ord(c) == CASE c = "/" -> 47 [] c = "a" -> 97 [] c = "b" -> 98 [] OTHER -> 0

\* x < y for strings.
RECURSIVE StrLess(_, _)
StrLess(x, y) ==
    IF y = << >> THEN FALSE
    ELSE IF x = << >> THEN TRUE
    ELSE IF Head(x) # Head(y) THEN Ord(Head(x)) < Ord(Head(y))
    ELSE StrLess(Tail(x), Tail(y))

\* (score_x, x) < (score_y, y) for the scores s.ratio() of x and y.
ScoredLess(x, y, word) ==
    LET mx == Matches(x, 1, Len(x), word, 1, Len(word))
        my == Matches(y, 1, Len(y), word, 1, Len(word))
        tx == Len(x) + Len(word)
        ty == Len(y) + Len(word)
    IN \/ mx * ty < my * tx
       \/ mx * ty = my * tx /\ StrLess(x, y)

\* difflib.get_close_matches(word, possibilities, n, cutoff) for n = 1: the
\* list returned, or the ValueError of its argument checks raised.
get_close_matches(word, possibilities, n, cutoff) ==
    IF ~(n > 0) THEN [raised |-> TRUE, matches |-> << >>]
    ELSE IF ~(0 <= cutoff[1] /\ cutoff[1] <= cutoff[2])
    THEN [raised |-> TRUE, matches |-> << >>]
    ELSE LET result == { x \in possibilities : ClearsCutoff(x, word, cutoff) }
         IN [raised |-> FALSE,
             matches |-> IF result = {} THEN << >>
                         ELSE <<CHOOSE x \in result :
                                  \A y \in result \ {x} : ScoredLess(y, x, word)>>]

\* A lookup without the cutoff.
get_context_without_cutoff(index, path) ==
    LET close_matches == get_close_matches(path, DOMAIN index, 1, <<0, 10>>)
    IN [raised  |-> close_matches.raised,
        mapping |-> IF close_matches.matches # << >>
                    THEN index[close_matches.matches[1]]
                    ELSE {}]

\* HandleBarsContextBuilder.get_context(file_path) over the index: the
\* mapping returned, as its set of items, or the exception raised.
get_context(index, path) ==
    LET close_matches == get_close_matches(path, DOMAIN index, 1, <<4, 10>>)
    IN [raised  |-> close_matches.raised,
        mapping |-> IF close_matches.matches # << >>
                    THEN index[close_matches.matches[1]]
                    ELSE {}]

\* Characters of the paths.
PathChars == {"/", "a", "b"}

\* Characters in a path.
MaxPathLen == 3

\* get_context calls made on one builder.
MaxLookups == 2

\* Strings of at most n characters.
RECURSIVE Strings(_)
Strings(n) ==
    IF n = 0 THEN { << >> }
    ELSE Strings(n - 1)
           \cup { Append(s, c) : s \in { t \in Strings(n - 1) : Len(t) = n - 1 },
                                 c \in PathChars }

\* Paths of the metadata files found by _find_templatedata_js_files.
IndexedPaths == { <<"a">>, <<"/", "b">>, <<"a", "/", "b">>, <<"b", "b", "a">> }

\* The mapping _extract_context_from_js parsed from the file of the path, as
\* its set of items (a mapping that is empty is not indexed).
ExtractedContext(path) == {<<"source", path>>}

\* HandleBarsContextBuilder.__init__: context_dict holds the entries of
\* context_data.
InitContext ==
    /\ \E found \in { K \in SUBSET IndexedPaths : Cardinality(K) <= 2 } :
          context_data = [path \in found |-> ExtractedContext(path)]
    /\ context_dict = context_data
    /\ file_path = << >>
    /\ hb_result = [raised |-> FALSE, mapping |-> {}]
    /\ hb_calls = 0
    /\ IdleWorkflow /\ IdlePreDir /\ IdlePreFile /\ IdlePost /\ IdleSpecial
    /\ IdleSteps /\ IdleBlog /\ IdleTree

\* builder.get_context(path)
GetContext ==
    /\ hb_calls < MaxLookups
    /\ \E path \in Strings(MaxPathLen) :
          /\ file_path' = path
          /\ hb_result' = get_context(context_dict, path)
    /\ hb_calls' = hb_calls + 1
    /\ UNCHANGED <<context_data, context_dict>>
    /\ UNCHANGED notHb

NextContext == GetContext

SpecContext == InitContext /\ [][NextContext]_vars

\* The similarity ratio of key x and the path is under 0.4.
UnderCutoff(x, path) ==
    5 * Matches(x, 1, Len(x), path, 1, Len(path)) < Len(x) + Len(path)

\* C18: get_context does not raise; for a path that no indexed key clears
\* the similarity cutoff for it returns the empty mapping; in every other
\* case it returns the mapping of an indexed path that clears the cutoff; and
\* the index is as it was built.
C18_GetContext ==
    hb_calls > 0 =>
       /\ ~hb_result.raised
       /\ (\A x \in DOMAIN context_dict : UnderCutoff(x, file_path))
             => hb_result.mapping = {}
       /\ (\E x \in DOMAIN context_dict : ~UnderCutoff(x, file_path))
             => \E x \in DOMAIN context_dict :
                   /\ ~UnderCutoff(x, file_path)
                   /\ hb_result.mapping = context_dict[x]
       /\ context_dict = context_data

\* Two paths are indexed, one of them shares a character with the path
\* looked up, neither clears the cutoff, and the lookup gave the empty mapping.
C18_Witness ==
    /\ hb_calls > 0
    /\ DOMAIN context_dict = { <<"a", "/", "b">>, <<"b", "b", "a">> }
    /\ file_path = <<"/", "/", "/">>
    /\ hb_result.mapping = {}

\* ---------------------------------------------------------------------------
\* One document end to end: the pre-process steps of PreProcessFile.execute
\* from the Markdown convert_html_to_md returned (whose headings have the
\* levels of the HTML source), write_file, and the steps of the arrange
\* strategy on the interim file.
\* ---------------------------------------------------------------------------

\* add_front_matter(markdown_content, context): the new content.
add_front_matter(markdown_content, context) ==
    <<"-", "-", "-", NL, "title: ">> \o context.title
       \o <<NL, "type: docs", NL, "-", "-", "-", NL>>
       \o <<NL>> \o markdown_content

\* The context PreProcessFile.execute builds for N/design.html.
PreProcessContext ==
    [title |-> <<"Design">>, up_level |-> TRUE, remove_numeric |-> TRUE]

\* The contexts ProcessDocVersion.execute and _execute_arrange_strategy build
\* for the section that names design.html.
ArrangeContexts ==
    { [up_level |-> TRUE, remove_numeric |-> TRUE,
       link_updates |-> LinkUpdates,
       front_matter |-> [template |-> t],
       template_values |-> TemplateValues]
      : t \in FrontMatterTemplates }

\* The steps after convert_to_md of the default pre-process order, the write
\* of the interim file, and what _execute_arrange_strategy does with it.
EndToEndChain ==
    <<"add_front_matter", "process_markdown_headings", "write_file",
      "open", "update_front_matter", "process_markdown_headings",
      "process_markdown_links", "write_file">>

\* Lines of the Markdown convert_html_to_md returned for design.html: text, a
\* blank line, a link, and headings of levels 1 to 4.
DesignLines ==
    { << >>, <<"body">>,
      <<"[", "link", "](", "/documentation", "/x", ")">>,
      <<"#", " ", "Top">>,
      <<"#", "#", " ", "2", ".", "3", " ", "Foo">>,
      <<"#", "#", "#", " ", "Sub">>,
      <<"#", "#", "#", "#", " ", "Bar">> }

\* Lines in the Markdown of design.html.
MaxDesignLines == 3

InitEndToEnd ==
    /\ md_chain = EndToEndChain
    /\ md_i = 1
    /\ md_pc = "step"
    /\ processed_content = << >>
    /\ md_context = PreProcessContext
    /\ md_history \in { <<d>> : d \in Documents(DesignLines, MaxDesignLines) }
    /\ md_files = << >>
    /\ IdleWorkflow /\ IdlePreDir /\ IdlePreFile /\ IdlePost /\ IdleSpecial
    /\ IdleContext /\ IdleBlog /\ IdleTree

\* content, context = execute_step(add_front_matter, content, context)
StepAddFrontMatter ==
    /\ CurrentStep = "add_front_matter"
    /\ md_history' = Append(md_history, add_front_matter(Content, md_context))
    /\ md_i' = md_i + 1
    /\ UNCHANGED <<md_chain, md_pc, processed_content, md_context, md_files>>
    /\ UNCHANGED notMd

\* content, self.context = execute_step(process_markdown_links, content, self.context)
StepLinks ==
    /\ CurrentStep = "process_markdown_links"
    /\ md_history' = Append(md_history, process_markdown_links(Content, md_context))
    /\ md_i' = md_i + 1
    /\ UNCHANGED <<md_chain, md_pc, processed_content, md_context, md_files>>
    /\ UNCHANGED notMd

\* write_file(dest_file, content, context)
StepWriteFile ==
    /\ CurrentStep = "write_file"
    /\ md_files' = Append(md_files, Content)
    /\ md_i' = md_i + 1
    /\ UNCHANGED <<md_chain, md_pc, processed_content, md_context, md_history>>
    /\ UNCHANGED notMd

\* _execute_arrange_strategy: content = html_file.read() of the interim file,
\* under the context of the section.
StepOpenInterim ==
    /\ CurrentStep = "open"
    /\ md_history' = Append(md_history, md_files[Len(md_files)])
    /\ md_context' \in ArrangeContexts
    /\ md_i' = md_i + 1
    /\ UNCHANGED <<md_chain, md_pc, processed_content, md_files>>
    /\ UNCHANGED notMd

NextEndToEnd ==
    \/ StepAddFrontMatter
    \/ StepHeadingsUpLevel
    \/ StepHeadingsRemoveNumeric
    \/ StepWriteFile
    \/ StepOpenInterim
    \/ StepUpdateFrontMatter
    \/ StepLinks

SpecEndToEnd == InitEndToEnd /\ [][NextEndToEnd]_vars

\* The levels of the headings of the content, in order.
RECURSIVE LevelsOf(_)
LevelsOf(lines) ==
    IF lines = << >> THEN << >>
    ELSE (IF HeadingMatches(Head(lines)) THEN <<HeadingLevel(Head(lines))>>
          ELSE << >>)
         \o LevelsOf(Tail(lines))

HeadingLevels(content) == LevelsOf(SplitLines(content))

\* C19: end to end, every heading of the final design.md has a level exactly
\* one less than in the source, with level 1 as the floor.
C19_OneLevelLessEndToEnd ==
    (md_chain = EndToEndChain /\ Len(md_files) = 2) =>
       LET source == HeadingLevels(md_history[1])
           final  == HeadingLevels(md_files[2])
       IN /\ Len(final) = Len(source)
          /\ \A i \in 1..Len(source) :
                final[i] = (IF source[i] = 1 THEN 1 ELSE source[i] - 1)

\* ---------------------------------------------------------------------------
\* process_blog (src/workflow/processors/special_files.py).  A numeral and a
\* word are one token each, and blanks between them are single.
\* ---------------------------------------------------------------------------

\* The value of the numerals (\d+ tokens).
NumeralValue ==
    ("0" :> 0) @@ ("3" :> 3) @@ ("5" :> 5) @@ ("7" :> 7) @@ ("8" :> 8)
       @@ ("10" :> 10) @@ ("30" :> 30) @@ ("31" :> 31) @@ ("32" :> 32)
       @@ ("2023" :> 2023)

Numerals == DOMAIN NumeralValue

\* Numerals of one or two digits, and of four.
ShortNumerals == Numerals \ {"2023"}
YearNumerals == {"2023"}

\* \w+ tokens.
WordTokens ==
    Numerals \cup {"October", "Oct", "February", "April", "Foo", "Jane",
                   "jane", "AK", "text", "News"}

\* Tokens that hold a "(".
OpenParens == {"(", "(@", "([@"}

\* re.match(r'^([^\n]+)', post): the title, << >> without a match.
PostTitle(post) == IF post = << >> THEN << >> ELSE SplitLines(post)[1]

\* re.search(r'(\d+\.\d+\.\d+)', title): the position of the match, 0 without.
VersionAt(title) ==
    LET found == { p \in 1..(Len(title) - 4) :
                     /\ title[p] \in Numerals /\ title[p + 1] = "."
                     /\ title[p + 2] \in Numerals /\ title[p + 3] = "."
                     /\ title[p + 4] \in Numerals }
    IN IF found = {} THEN 0 ELSE MinOf(found)

\* version_match.group(1)
PostVersion(title) == SubSeq(title, VersionAt(title), VersionAt(title) + 4)

\* content_lines after the duplicate title lines are removed.
ContentLines(post) ==
    LET title == PostTitle(post)
    IN SelectSeq(Tail(SplitLines(post)), LAMBDA line : Strip(line) # title)

\* date_line: the first line of the lines that is not empty, stripped;
\* << >> for None.
DateLine(content_lines) ==
    LET found == { i \in 1..Len(content_lines) : Strip(content_lines[i]) # << >> }
    IN IF found = {} THEN << >> ELSE Strip(content_lines[MinOf(found)])

\* re.search(r'(\d{1,2}\s+\w+\s+\d{4})', date_line): the position, 0 without.
DateAt(date_line) ==
    LET found == { p \in 1..(Len(date_line) - 4) :
                     /\ date_line[p] \in ShortNumerals /\ date_line[p + 1] = " "
                     /\ date_line[p + 2] \in WordTokens /\ date_line[p + 3] = " "
                     /\ date_line[p + 4] \in YearNumerals }
    IN IF found = {} THEN 0 ELSE MinOf(found)

\* The position of the first token with a "(" from p on, Len + 1 without.
NextOpenParen(s, p) ==
    MinOf({ i \in p..(Len(s) + 1) : i > Len(s) \/ s[i] \in OpenParens })

\* The "-" at p opens an author with a handle: formats 1 and 2, the handle
\* opened by the token `open` and closed by the token `close`.
HandleFormatAt(s, p, open, close) ==
    LET q == NextOpenParen(s, p + 1)
    IN /\ s[p] = "-"
       /\ q >= p + 2 /\ q + 2 <= Len(s)
       /\ s[q] = open
       /\ s[q + 1] # close
       /\ \E r \in (q + 2)..Len(s) : s[r] = close

\* The "-" at p opens an author without a handle: format 4.
NameFormatAt(s, p) ==
    /\ s[p] = "-" /\ p < Len(s) /\ s[p + 1] \notin OpenParens

\* The author of the match of a handle format at p.
HandleAuthor(s, p, close) ==
    LET q == NextOpenParen(s, p + 1)
    IN Strip(SubSeq(s, p + 1, q - 1)) \o <<" ", "(@">>
          \o SubSeq(s, q + 1, FirstAt(s, close, q + 2) - 1) \o <<")">>

\* author_match and the author formatted from it: [matched, author].
AuthorMatch(date_line) ==
    LET at1 == { p \in 1..Len(date_line) : HandleFormatAt(date_line, p, "(@", ")") }
        at2 == { p \in 1..Len(date_line) : HandleFormatAt(date_line, p, "([@", "]") }
        at4 == { p \in 1..Len(date_line) : NameFormatAt(date_line, p) }
    IN IF at1 # {}
       THEN [matched |-> TRUE, author |-> HandleAuthor(date_line, MinOf(at1), ")")]
       ELSE IF at2 # {}
       THEN [matched |-> TRUE, author |-> HandleAuthor(date_line, MinOf(at2), "]")]
       ELSE IF at4 # {}
       THEN [matched |-> TRUE,
             author |-> Strip(SubSeq(date_line, MinOf(at4) + 1,
                                     NextOpenParen(date_line, MinOf(at4) + 1) - 1))]
       ELSE [matched |-> FALSE, author |-> << >>]

\* The month numbers of '%B' and of '%b'.
MonthNumber ==
    ("October" :> 10) @@ ("Oct" :> 10) @@ ("February" :> 2) @@ ("April" :> 4)

\* Days in the months of 2023.
DaysInMonth == (10 :> 31) @@ (2 :> 28) @@ (4 :> 30)

\* datetime.strptime(date_str, '%d %B %Y') or, that raising ValueError,
\* datetime.strptime(date_str, '%d %b %Y') returns a date.
StrptimeSucceeds(date_str) ==
    /\ date_str[3] \in DOMAIN MonthNumber
    /\ NumeralValue[date_str[1]] >= 1
    /\ NumeralValue[date_str[1]] <= DaysInMonth[MonthNumber[date_str[3]]]

\* '%m' and '%d' of strftime.
TwoDigits(n) ==
    IF n < 10 THEN <<"0", <<"0", "1", "2", "3", "4", "5", "6", "7", "8", "9">>[n + 1]>>
    ELSE <<CHOOSE tok \in Numerals : NumeralValue[tok] = n>>

\* date.strftime('%Y-%m-%d')
Strftime(date_str) ==
    <<date_str[5], "-">> \o TwoDigits(MonthNumber[date_str[3]])
       \o <<"-">> \o TwoDigits(NumeralValue[date_str[1]])

FallbackDate == <<"2025-03-18">>
FallbackAuthor == <<"Apache Kafka Team">>

\* formatted_date of a post with the date line.
FormattedDate(date_line) ==
    LET date_str == SubSeq(date_line, DateAt(date_line), DateAt(date_line) + 4)
    IN IF date_line = << >> THEN FallbackDate
       ELSE IF DateAt(date_line) # 0 /\ AuthorMatch(date_line).matched
       THEN IF StrptimeSucceeds(date_str) THEN Strftime(date_str) ELSE FallbackDate
       ELSE FallbackDate

\* An author that falls back whenever the date does.
AuthorFallsBackWithDate(date_line) ==
    IF FormattedDate(date_line) = FallbackDate THEN FallbackAuthor
    ELSE AuthorMatch(date_line).author

\* author of a post with the date line.
Author(date_line) ==
    IF date_line = << >> THEN FallbackAuthor
    ELSE IF DateAt(date_line) # 0 /\ AuthorMatch(date_line).matched
    THEN AuthorMatch(date_line).author
    ELSE FallbackAuthor

\* re.sub(r'^# ', '## ', content, flags=re.MULTILINE) of the lines.
DemoteTopHeadings(lines) ==
    [i \in 1..Len(lines) |->
        IF StartsWith(lines[i], <<"#", " ">>) THEN <<"#">> \o lines[i]
        ELSE lines[i]]

\* The body of the post file: content_lines less the date line, if date and
\* author were found in it.
PostBody(post) ==
    LET content_lines == ContentLines(post)
        date_line == DateLine(content_lines)
        kept == IF date_line # << >> /\ DateAt(date_line) # 0
                    /\ AuthorMatch(date_line).matched
                THEN SelectSeq(content_lines, LAMBDA line : Strip(line) # date_line)
                ELSE content_lines
    IN JoinLines(DemoteTopHeadings(kept))

\* A post the loop skips with `continue`.
PostSkipped(post) ==
    \/ PostTitle(post) = << >>
    \/ VersionAt(PostTitle(post)) = 0
    \/ Len(SplitLines(post)) < 2

\* The write of the post file: its name and what the f-string holds.
PostFile(post) ==
    LET title == PostTitle(post)
        date_line == DateLine(ContentLines(post))
    IN [file      |-> <<"releases/ak-">> \o PostVersion(title) \o <<".md">>,
        date      |-> FormattedDate(date_line),
        title     |-> title,
        linkTitle |-> <<"AK", " ">> \o PostVersion(title),
        author    |-> Author(date_line),
        content   |-> PostBody(post)]

\* re.split(r'(?m)^# ', content)[1:] of the lines from line i on, the piece
\* under way being `piece` once the first heading is passed.
RECURSIVE SplitPosts(_, _, _, _)
SplitPosts(lines, i, piece, started) ==
    IF i > Len(lines)
    THEN IF started THEN <<JoinLines(piece)>> ELSE << >>
    ELSE IF StartsWith(lines[i], <<"#", " ">>)
    THEN (IF started THEN <<JoinLines(Append(piece, << >>))>> ELSE << >>)
         \o SplitPosts(lines, i + 1, <<From(lines[i], 3)>>, TRUE)
    ELSE SplitPosts(lines, i + 1,
                    IF started THEN Append(piece, lines[i]) ELSE piece, started)

\* The writes of blog/_index.md and blog/releases/_index.md.
BlogIndexFiles ==
    << [file |-> <<"_index.md">>, date |-> << >>, title |-> <<"Blog">>,
        linkTitle |-> <<"Blog">>, author |-> << >>, content |-> << >>],
       [file |-> <<"releases/_index.md">>, date |-> << >>,
        title |-> <<"Release Announcements">>,
        linkTitle |-> <<"Release Announcements">>, author |-> << >>,
        content |-> << >>] >>

\* What `except Exception` of process_blog returns.
BlogExceptResult == "False"

\* Lines of blog.md: a blank line, text, titles with and without a version,
\* a line that repeats a title, and date lines: complete, with a short
\* month, with a day the month does not have, without a date, and without
\* an author.
BlogLines ==
    { << >>, <<"text">>,
      <<"#", " ", "AK", " ", "3", ".", "7", ".", "0">>,
      <<"#", " ", "3", ".", "8", ".", "0">>,
      <<"#", " ", "News">>,
      <<"AK", " ", "3", ".", "7", ".", "0">>,
      <<"10", " ", "October", " ", "2023", " ", "-", " ", "Jane", " ",
        "(@", "jane", ")">>,
      <<"5", " ", "Oct", " ", "2023", " ", "-", " ", "Jane">>,
      <<"30", " ", "February", " ", "2023", " ", "-", " ", "Jane">>,
      <<"October", " ", "2023", " ", "-", " ", "Jane">>,
      <<"10", " ", "October", " ", "2023">> }

\* Lines in blog.md.
MaxBlogLines == 3

InitBlog ==
    /\ blog_content \in Documents(BlogLines, MaxBlogLines)
    /\ blog_pc = "start"
    /\ posts = << >>
    /\ post_no = 0
    /\ blog_written = << >>
    /\ blog_result = "none"
    /\ IdleWorkflow /\ IdlePreDir /\ IdlePreFile /\ IdlePost /\ IdleSpecial
    /\ IdleSteps /\ IdleContext /\ IdleTree

\* process_blog up to the loop: the directories, the two index files and the
\* split into posts; an OSError of one of them ends in `except Exception`.
BlogStart ==
    /\ blog_pc = "start"
    /\ \E raises \in BOOLEAN :
          IF raises
          THEN /\ blog_result' = BlogExceptResult
               /\ blog_pc' = "done"
               /\ UNCHANGED <<posts, post_no, blog_written>>
          ELSE /\ blog_written' = BlogIndexFiles
               /\ posts' = SplitPosts(SplitLines(blog_content), 1, << >>, FALSE)
               /\ post_no' = 1
               /\ blog_pc' = "posts"
               /\ UNCHANGED blog_result
    /\ UNCHANGED blog_content
    /\ UNCHANGED notBlog

\* One pass of `for post in posts`: the post is skipped, or its file is
\* written; an OSError of the write ends in `except Exception`.
BlogPost ==
    /\ blog_pc = "posts"
    /\ post_no <= Len(posts)
    /\ IF PostSkipped(posts[post_no])
       THEN /\ post_no' = post_no + 1
            /\ UNCHANGED <<blog_pc, blog_written, blog_result>>
       ELSE \E raises \in BOOLEAN :
               IF raises
               THEN /\ blog_result' = BlogExceptResult
                    /\ blog_pc' = "done"
                    /\ UNCHANGED <<post_no, blog_written>>
               ELSE /\ blog_written' = Append(blog_written, PostFile(posts[post_no]))
                    /\ post_no' = post_no + 1
                    /\ UNCHANGED <<blog_pc, blog_result>>
    /\ UNCHANGED <<blog_content, posts>>
    /\ UNCHANGED notBlog

\* return True
BlogReturn ==
    /\ blog_pc = "posts"
    /\ post_no > Len(posts)
    /\ blog_result' = "True"
    /\ blog_pc' = "done"
    /\ UNCHANGED <<blog_content, posts, post_no, blog_written>>
    /\ UNCHANGED notBlog

NextBlog ==
    \/ BlogStart
    \/ BlogPost
    \/ BlogReturn

SpecBlog == InitBlog /\ [][NextBlog]_vars

\* The posts the loop has passed and not skipped, in order.
PostsWritten ==
    SelectSeq(SubSeq(posts, 1, post_no - 1), LAMBDA post : ~PostSkipped(post))

\* The date line of the post has a date pattern.
HasDatePattern(post) == DateAt(DateLine(ContentLines(post))) # 0

\* The date line of the post has an author pattern.
HasAuthorPattern(post) == AuthorMatch(DateLine(ContentLines(post))).matched

\* The date pattern of the date line of the post is a calendar date.
IsCalendarDate(post) ==
    LET date_line == DateLine(ContentLines(post))
    IN StrptimeSucceeds(SubSeq(date_line, DateAt(date_line), DateAt(date_line) + 4))

\* The post has a date line, and it cannot be parsed: it has no date
\* pattern, or no author pattern, or its date is not a calendar date.
DateLineUnparseable(post) ==
    /\ DateLine(ContentLines(post)) # << >>
    /\ \/ ~HasDatePattern(post)
       \/ ~HasAuthorPattern(post)
       \/ ~IsCalendarDate(post)

\* The file of the k-th post written is the file of its version.
WrittenForVersion(k) ==
    blog_written[2 + k].file
       = <<"releases/ak-">> \o PostVersion(PostTitle(PostsWritten[k])) \o <<".md">>

\* C20 as stated: process_blog does not raise, and every release post whose
\* date line cannot be parsed, in any of the three ways, has its post file
\* written with the default date and the default author.
C20_UnparseableGetsBothDefaults ==
    blog_pc \in {"posts", "done"} =>
       /\ blog_result # "raised"
       /\ blog_pc = "posts" => Len(blog_written) = 2 + Len(PostsWritten)
       /\ \A k \in 1..Len(PostsWritten) :
             (2 + k <= Len(blog_written) /\ DateLineUnparseable(PostsWritten[k])) =>
                /\ WrittenForVersion(k)
                /\ blog_written[2 + k].date = FallbackDate
                /\ blog_written[2 + k].author = FallbackAuthor

\* C20, amended: process_blog does not raise, and every release post whose
\* date line cannot be parsed has its post file written with the default
\* date; the author is the default one when the line has no date pattern or
\* no author pattern, and the author parsed from the line when both patterns
\* are there and the date is not a calendar date.
C20_UnparseableDateLine ==
    blog_pc \in {"posts", "done"} =>
       /\ blog_result # "raised"
       /\ blog_pc = "posts" => Len(blog_written) = 2 + Len(PostsWritten)
       /\ \A k \in 1..Len(PostsWritten) :
             (2 + k <= Len(blog_written) /\ DateLineUnparseable(PostsWritten[k])) =>
                /\ WrittenForVersion(k)
                /\ blog_written[2 + k].date = FallbackDate
                /\ blog_written[2 + k].author =
                      (IF HasDatePattern(PostsWritten[k])
                          /\ HasAuthorPattern(PostsWritten[k])
                       THEN AuthorMatch(DateLine(ContentLines(PostsWritten[k]))).author
                       ELSE FallbackAuthor)

\* "# 3.8.0" over "30 February 2023 - Jane": ak-3.8.0.md is written with the
\* default date and the author Jane, and process_blog returned True.
C20_Witness ==
    /\ blog_result = "True"
    /\ blog_content = JoinLines(<< <<"#", " ", "3", ".", "8", ".", "0">>,
                                  <<"30", " ", "February", " ", "2023", " ",
                                    "-", " ", "Jane">> >>)
    /\ Len(blog_written) = 3
    /\ blog_written[3].file = <<"releases/ak-", "3", ".", "8", ".", "0", ".md">>
    /\ blog_written[3].date = FallbackDate
    /\ blog_written[3].author = <<"Jane">>

----------------------------------------------------------------------------
(***************************************************************************)
(* Claims about excluded directories                                       *)
(***************************************************************************)

\* The destinations a static copy of d could have.
StaticDestsOf(d) == { StaticDest(d, p) : p \in SrcDirs \cup {SourceRoot} }

\* C21: execute on a directory whose name is in exclude_dirs returns True
\* (never False), and neither the directory nor anything beneath it gets a
\* destination directory, a placeholder _index.md or a file, nothing beneath
\* it is dispatched, and nothing of it is copied to the static root; this
\* also when the name is in static_dirs as well.
C21_ExcludedDirectoryIsSkipped ==
    \A d \in exclude_dirs :
       /\ ret[d] \in {"none", "True"}
       /\ \A k \in 1..Len(dstack) :
             dstack[k].dir = d => dstack[k].res = "True" /\ dstack[k].todo = {}
       /\ d \in visited /\ (\A k \in 1..Len(dstack) : dstack[k].dir # d)
             => ret[d] = "True"
       /\ \A x \in TreeUnder(d) :
             /\ x \notin dest_dirs
             /\ x \notin dest_index
             /\ x # d => x \notin visited
             /\ \A e \in dest_files : e[1] # x
       /\ static_copies \cap StaticDestsOf(d) = {}

\* A directory named in both exclude_dirs and static_dirs was dispatched and
\* returned True, its parent's call has returned too, and a copy to the
\* static root would have succeeded.
C21_Witness ==
    /\ "streams" \in exclude_dirs \cap static_dirs
    /\ ~copytree_fails
    /\ ret["streams"] = "True"
    /\ ret["39"] = "True"
    /\ <<"39", "design.md">> \in dest_files

----------------------------------------------------------------------------
(***************************************************************************)
(* SpecOutputTree: what one Workflow.run writes under the output           *)
(* directory, stage by stage (src/main.py, src/workflow/stages.py,         *)
(* src/workflow/processors/special_files.py)                               *)
(***************************************************************************)

\* rules['doc_dirs'], in the declared order
TreeVersions == <<"39", "40">>

\* The special files Workflow.__init__ declares, with their processors'
\* output: committers and powered-by write JSON under data/, blog writes
\* Markdown under content/en/blog.
SpecialFileList == <<"committers.md", "powered-by.html", "blog.md">>

SpecialFileWrites(f) ==
    IF f = "committers.md" THEN << <<"data", "committers.json">> >>
    ELSE IF f = "powered-by.html" THEN << <<"data", "testimonials.json">> >>
    ELSE << <<"content", "en", "blog", "_index.md">>,
            <<"content", "en", "blog", "releases", "_index.md">>,
            <<"content", "en", "blog", "releases", "ak-4.0.0.md">> >>

\* The documents ProcessDocVersion materializes for a version.
VersionDocs(v) ==
    << <<"content", "en", v, "_index.md">>,
       <<"content", "en", v, "operations", "kraft.md">>,
       <<"content", "en", v, "streams", "introduction.md">> >>

Range(s) == { s[k] : k \in DOMAIN s }

AllVersionDocs == UNION { Range(VersionDocs(TreeVersions[k])) : k \in DOMAIN TreeVersions }

\* output_dir.rglob("operations/kraft.md")
IsKraftFile(p) == Len(p) = 5 /\ p[4] = "operations" /\ p[5] = "kraft.md"

\* The redirect stub of a version directory: <version>/documentation/_index.md
RedirectIndex(v) == <<"content", "en", v, "documentation", "_index.md">>

IsRedirectStub(p) == Len(p) >= 4 /\ p[4] = "documentation"

\* A Markdown document of the site's content: a .md file under
\* output/content that is not a redirect stub.
MarkdownNames ==
    {"_index.md", "kraft.md", "introduction.md", "ak-4.0.0.md"}

IsContentDocument(p) ==
    /\ p[1] = "content"
    /\ p[Len(p)] \in MarkdownNames
    /\ ~IsRedirectStub(p)

\* One write: the path, the stage that made it, and how many times
\* TocCleaner.execute had run before it in this workflow run.
Written(path, stage) ==
    [path |-> path, stage |-> stage, toc_runs |-> tree_ret.toc_runs]

RECURSIVE WriteAll(_, _)
WriteAll(paths, stage) ==
    IF paths = << >> THEN << >>
    ELSE <<Written(Head(paths), stage)>> \o WriteAll(Tail(paths), stage)

\* The sequence of the elements of a set of paths, in some fixed order.
RECURSIVE SeqOf(_)
SeqOf(S) ==
    IF S = {} THEN << >>
    ELSE LET x == CHOOSE y \in S : TRUE IN <<x>> \o SeqOf(S \ {x})

StartStages ==
    {None, "clone", "pre-process", "post-process", "special-files", "validate"}

InitOutputTree ==
    /\ \E start \in StartStages,
          failing \in SUBSET Range(TreeVersions),
          kraft \in SUBSET Range(TreeVersions),
          present \in SUBSET Range(SpecialFileList) :
          /\ tree_cfg = [start_stage |-> start, failing |-> failing,
                         kraft |-> kraft, present |-> present]
          \* a run that starts after post-process works on the output of an
          \* earlier run
          /\ tree_files = IF start \in {"special-files", "validate"}
                          THEN AllVersionDocs ELSE {}
    /\ tree_pc = "run"
    /\ tree_todo = << >>
    /\ tree_log = << >>
    /\ tree_ret = [success |-> TRUE, toc_runs |-> 0, run |-> "none"]
    /\ IdleWorkflow /\ IdlePreDir /\ IdlePreFile /\ IdlePost /\ IdleSpecial
    /\ IdleSteps /\ IdleContext /\ IdleBlog

\* Workflow.run resolves the start stage.
TreeRun ==
    /\ tree_pc = "run"
    /\ tree_pc' = IF tree_cfg.start_stage = None THEN "clone"
                  ELSE tree_cfg.start_stage
    /\ tree_todo' = IF tree_pc' = "post-process" THEN TreeVersions
                    ELSE IF tree_pc' = "special-files" THEN SpecialFileList
                    ELSE << >>
    /\ UNCHANGED <<tree_cfg, tree_files, tree_log, tree_ret>>
    /\ UNCHANGED notTree

\* CloneStage and PreProcessStage write the source and interim trees only.
TreeCloneStage ==
    /\ tree_pc = "clone"
    /\ tree_pc' = "pre-process"
    /\ UNCHANGED <<tree_cfg, tree_files, tree_todo, tree_log, tree_ret>>
    /\ UNCHANGED notTree

TreePreProcessStage ==
    /\ tree_pc = "pre-process"
    /\ tree_pc' = "post-process"
    /\ tree_todo' = TreeVersions
    /\ UNCHANGED <<tree_cfg, tree_files, tree_log, tree_ret>>
    /\ UNCHANGED notTree

\* PostProcessStage: one iteration of `for version in doc_dirs`.
TreePostVersion ==
    /\ tree_pc = "post-process" /\ tree_todo # << >>
    /\ LET v == Head(tree_todo) IN
       IF v \in tree_cfg.failing
       THEN /\ tree_ret' = [tree_ret EXCEPT !.success = FALSE]
            /\ UNCHANGED <<tree_files, tree_log>>
       ELSE /\ tree_files' = tree_files \cup Range(VersionDocs(v))
            /\ tree_log' = tree_log \o WriteAll(VersionDocs(v), "post-process")
            /\ UNCHANGED tree_ret
    /\ tree_todo' = Tail(tree_todo)
    /\ UNCHANGED <<tree_cfg, tree_pc>>
    /\ UNCHANGED notTree

\* `if success:` TocCleaner(output_dir).execute(), which rewrites Markdown
\* files of the content tree in place.
TreeTocCleaner ==
    /\ tree_pc = "post-process" /\ tree_todo = << >>
    /\ IF tree_ret.success
       THEN /\ tree_ret' = [tree_ret EXCEPT !.toc_runs = @ + 1]
            /\ \E cleaned \in SUBSET { p \in tree_files : p[1] = "content" } :
                  tree_log' = tree_log \o WriteAll(SeqOf(cleaned), "toc-cleaner")
       ELSE UNCHANGED <<tree_ret, tree_log>>
    /\ tree_pc' = "kraft"
    /\ UNCHANGED <<tree_cfg, tree_files, tree_todo>>
    /\ UNCHANGED notTree

\* `if success:` _process_kraft_files rewrites every operations/kraft.md
\* that has the migration section.
TreeKraftFiles ==
    /\ tree_pc = "kraft"
    /\ IF tree_ret.success
       THEN tree_log' = tree_log \o
              WriteAll(SeqOf({ p \in tree_files :
                                 IsKraftFile(p) /\ p[3] \in tree_cfg.kraft }),
                       "kraft")
       ELSE UNCHANGED tree_log
    /\ tree_pc' = "redirects"
    /\ UNCHANGED <<tree_cfg, tree_files, tree_todo, tree_ret>>
    /\ UNCHANGED notTree

\* `if success:` _create_doc_redirects writes the redirect stubs that do not
\* exist yet; then _do_execute returns and Workflow.run goes on or stops.
TreeDocRedirects ==
    /\ tree_pc = "redirects"
    /\ LET versions == { p[3] : p \in { q \in tree_files : Len(q) >= 4 } }
           stubs == { RedirectIndex(v) : v \in versions } \ tree_files
       IN
       IF tree_ret.success
       THEN /\ tree_log' = tree_log \o WriteAll(SeqOf(stubs), "redirects")
            /\ tree_files' = tree_files \cup stubs
            /\ tree_pc' = "special-files"
            /\ tree_todo' = SpecialFileList
            /\ UNCHANGED tree_ret
       ELSE /\ tree_pc' = "done"
            /\ tree_ret' = [tree_ret EXCEPT !.run = "False"]
            /\ UNCHANGED <<tree_log, tree_files, tree_todo>>
    /\ UNCHANGED tree_cfg
    /\ UNCHANGED notTree

\* ProcessSpecialFilesStage: one iteration of `for special_file in ...`; an
\* absent input file is skipped.
TreeSpecialFile ==
    /\ tree_pc = "special-files" /\ tree_todo # << >>
    /\ LET f == Head(tree_todo) IN
       IF f \in tree_cfg.present
       THEN /\ tree_log' = tree_log \o WriteAll(SpecialFileWrites(f), "special-files")
            /\ tree_files' = tree_files \cup Range(SpecialFileWrites(f))
       ELSE UNCHANGED <<tree_log, tree_files>>
    /\ tree_todo' = Tail(tree_todo)
    /\ UNCHANGED <<tree_cfg, tree_pc, tree_ret>>
    /\ UNCHANGED notTree

TreeSpecialFilesEnd ==
    /\ tree_pc = "special-files" /\ tree_todo = << >>
    /\ tree_pc' = "validate"
    /\ UNCHANGED <<tree_cfg, tree_files, tree_todo, tree_log, tree_ret>>
    /\ UNCHANGED notTree

\* ValidationStage reads the output tree and writes nothing.
TreeValidationStage ==
    /\ tree_pc = "validate"
    /\ tree_pc' = "done"
    /\ tree_ret' = [tree_ret EXCEPT !.run =
                      IF \E p \in tree_files : p[Len(p)] \in MarkdownNames
                      THEN "True" ELSE "False"]
    /\ UNCHANGED <<tree_cfg, tree_files, tree_todo, tree_log>>
    /\ UNCHANGED notTree

NextOutputTree ==
    \/ TreeRun
    \/ TreeCloneStage
    \/ TreePreProcessStage
    \/ TreePostVersion
    \/ TreeTocCleaner
    \/ TreeKraftFiles
    \/ TreeDocRedirects
    \/ TreeSpecialFile
    \/ TreeSpecialFilesEnd
    \/ TreeValidationStage

SpecOutputTree == InitOutputTree /\ [][NextOutputTree]_vars

\* C22: in a workflow run TocCleaner runs at most once, and no Markdown
\* content document is written under the output content tree after it has
\* run (its own in-place rewrites and the redirect stubs aside).
C22_NoDocumentWrittenAfterTocCleaner ==
    /\ tree_ret.toc_runs <= 1
    /\ \A k \in DOMAIN tree_log :
          (tree_log[k].stage # "toc-cleaner" /\ IsContentDocument(tree_log[k].path))
             => tree_log[k].toc_runs = 0

----------------------------------------------------------------------------
(***************************************************************************)
(* TocCleaner (src/workflow/processors/toc_cleaner.py)                     *)
(*                                                                         *)
(* A file's content is the sequence of its lines, content.split('\n'),     *)
(* each line one of the texts below; a line is followed by a newline       *)
(* exactly when it is not the last one.                                    *)
(***************************************************************************)
TocHeading    == "**Table of Contents**"
TopBullet     == "  * item"
NestedBullet  == "    * item"
ConfigHeading == "# Configuration parameter reference"
SectionLine   == "## Section"
Breadcrumbs   == "[Intro](/intro) [Run Demo](/demo)"
Preliminaries == "* Preliminaries"
TextLine      == "text"

TocLineTexts ==
    {TocHeading, "", TopBullet, NestedBullet, ConfigHeading, SectionLine,
     Breadcrumbs, Preliminaries, TextLine}

\* (?:    \* .*\n)* from line p on: the first line it does not consume.
RECURSIVE NestedEnd(_, _)
NestedEnd(L, p) ==
    IF p < Len(L) /\ L[p] = NestedBullet THEN NestedEnd(L, p + 1) ELSE p

\* (?:  \* .*\n(?:    \* .*\n)*)* from line p on.
RECURSIVE BulletsEnd(_, _)
BulletsEnd(L, p) ==
    IF p < Len(L) /\ L[p] = TopBullet
    THEN BulletsEnd(L, NestedEnd(L, p + 1)) ELSE p

\* _remove_table_of_contents, scanning from line i: the heading, the blank
\* line after it and the bullet list are removed.
RECURSIVE RemoveTocFrom(_, _)
RemoveTocFrom(L, i) ==
    IF i > Len(L) THEN << >>
    ELSE IF L[i] = TocHeading /\ i + 1 < Len(L) /\ L[i + 1] = ""
    THEN RemoveTocFrom(L, BulletsEnd(L, i + 2))
    ELSE <<L[i]>> \o RemoveTocFrom(L, i + 1)

remove_table_of_contents(L) == RemoveTocFrom(L, 1)

\* _remove_config_param_reference_toc: the bullet list between the heading
\* and the blank line before the next "##" heading is removed.
RECURSIVE RemoveConfigTocFrom(_, _)
RemoveConfigTocFrom(L, i) ==
    IF i > Len(L) THEN << >>
    ELSE LET p == BulletsEnd(L, i + 2) IN
         IF /\ L[i] = ConfigHeading /\ i + 1 < Len(L) /\ L[i + 1] = ""
            /\ p > i + 2
            /\ p < Len(L) /\ L[p] = "" /\ L[p + 1] = SectionLine
         THEN <<L[i], L[i + 1], L[p], L[p + 1]>> \o RemoveConfigTocFrom(L, p + 2)
         ELSE <<L[i]>> \o RemoveConfigTocFrom(L, i + 1)

remove_config_param_reference_toc(L) == RemoveConfigTocFrom(L, 1)

\* The last line of the run of breadcrumb and blank lines that starts at k.
RECURSIVE CrumbRunEnd(_, _)
CrumbRunEnd(L, p) ==
    IF p <= Len(L) /\ L[p] \in {Breadcrumbs, ""}
    THEN CrumbRunEnd(L, p + 1) ELSE p - 1

Max(S) == CHOOSE x \in S : \A y \in S : y <= x

\* _remove_navigation_breadcrumbs: lines of two or more links, up to and
\* including the blank lines after them (the match must end in "\n\n").
RECURSIVE RemoveCrumbsFrom(_, _)
RemoveCrumbsFrom(L, k) ==
    IF k > Len(L) THEN << >>
    ELSE LET ends == { j \in (k + 1)..CrumbRunEnd(L, k) :
                         L[j] = "" /\ j < Len(L) }
         IN
         IF L[k] = Breadcrumbs /\ ends # {}
         THEN RemoveCrumbsFrom(L, Max(ends) + 1)
         ELSE <<L[k]>> \o RemoveCrumbsFrom(L, k + 1)

remove_navigation_breadcrumbs(L) == RemoveCrumbsFrom(L, 1)

\* The first line at or after p that is not blank (Len(L) + 1: none).
RECURSIVE SkipBlank(_, _)
SkipBlank(L, p) ==
    IF p <= Len(L) /\ L[p] = "" THEN SkipBlank(L, p + 1) ELSE p

\* (?:^\s+\* .*\n)* from line p on: indented bullets, and any bullet that
\* blank lines precede.
RECURSIVE ProtocolListEnd(_, _)
ProtocolListEnd(L, p) ==
    LET r == SkipBlank(L, p) IN
    IF r < Len(L) /\ (L[r] \in {TopBullet, NestedBullet}
                        \/ (L[r] = Preliminaries /\ r > p))
    THEN ProtocolListEnd(L, r + 1) ELSE p

\* _remove_protocol_toc: the "* Preliminaries" line, the blank lines before
\* it and the list after it.
RECURSIVE RemoveProtocolTocFrom(_, _)
RemoveProtocolTocFrom(L, s) ==
    IF s > Len(L) THEN << >>
    ELSE LET q == SkipBlank(L, s) IN
         IF q < Len(L) /\ L[q] = Preliminaries
         THEN RemoveProtocolTocFrom(L, ProtocolListEnd(L, q + 1))
         ELSE <<L[s]>> \o RemoveProtocolTocFrom(L, s + 1)

remove_protocol_toc(L) == RemoveProtocolTocFrom(L, 1)

\* "protocol.md" in file_path.name
IsProtocolFile(name) == name = "protocol.md"

\* The content _process_file computes from the content read.
CleanedContent(name, L) ==
    LET c1 == remove_table_of_contents(L)
        c2 == remove_config_param_reference_toc(c1)
        c3 == remove_table_of_contents(c2)
        c4 == remove_config_param_reference_toc(c3)
        c5 == remove_navigation_breadcrumbs(c4)
    IN IF IsProtocolFile(name) THEN remove_protocol_toc(c5) ELSE c5

\* Bound: the number of lines of the generated content of a Markdown file.
MaxTocLines == 3

\* Longer contents that the removal patterns match.
TocSamples ==
    { <<TextLine, TocHeading, "", TopBullet, NestedBullet, TopBullet, TextLine>>,
      <<ConfigHeading, "", TopBullet, NestedBullet, "", SectionLine>>,
      <<Breadcrumbs, "", Breadcrumbs, "", "", TextLine>> }

TocContents ==
    TocSamples \cup UNION { [1..k -> TocLineTexts] : k \in 1..MaxTocLines }

ProtocolContents ==
    { <<TextLine, "", Preliminaries, TopBullet, "", TopBullet, TextLine>>,
      <<SectionLine, TextLine>> }

\* content_dir.rglob('*.md'), in the order the walk yields them
TocFiles == <<"intro.md", "protocol.md">>

\* `if content != original_content:`
ShouldWriteAlways(content, original_content) == TRUE

ShouldWrite(content, original_content) == content # original_content

InitTocCleaner ==
    /\ \E exists \in BOOLEAN,
          errors \in [Range(TocFiles) -> {"none", "read", "write"}],
          intro \in TocContents, protocol \in ProtocolContents :
          /\ tree_cfg = [content_exists |-> exists, errors |-> errors]
          /\ tree_files = IF exists
                          THEN ("intro.md" :> intro @@ "protocol.md" :> protocol)
                          ELSE << >>
    /\ tree_pc = "execute"
    /\ tree_todo = << >>
    /\ tree_log = << >>
    /\ tree_ret = [total_count |-> 0, modified_count |-> 0, seen |-> {},
                   result |-> "none"]
    /\ IdleWorkflow /\ IdlePreDir /\ IdlePreFile /\ IdlePost /\ IdleSpecial
    /\ IdleSteps /\ IdleContext /\ IdleBlog

\* execute() up to the loop: the content directory test, the listing and
\* total_count.
TocExecute ==
    /\ tree_pc = "execute"
    /\ IF tree_cfg.content_exists
       THEN /\ tree_todo' = TocFiles
            /\ tree_ret' = [tree_ret EXCEPT !.total_count = Len(TocFiles)]
            /\ tree_pc' = "loop"
       ELSE /\ tree_ret' = [tree_ret EXCEPT !.result = "True"]
            /\ tree_pc' = "done"
            /\ UNCHANGED tree_todo
    /\ UNCHANGED <<tree_cfg, tree_files, tree_log>>
    /\ UNCHANGED notTree

\* One iteration of `for md_file in md_files`: _process_file reads the file,
\* applies the removal patterns and writes the result back if it differs; an
\* exception (reading, or opening for writing) makes it return False.
TocProcessFile ==
    /\ tree_pc = "loop" /\ tree_todo # << >>
    /\ LET name == Head(tree_todo)
           original_content == tree_files[name]
           content == CleanedContent(name, original_content)
           writes == /\ tree_cfg.errors[name] # "read"
                     /\ ShouldWrite(content, original_content)
                     /\ tree_cfg.errors[name] # "write"
       IN
       /\ tree_files' = IF writes THEN [tree_files EXCEPT ![name] = content]
                        ELSE tree_files
       /\ tree_log' = IF writes
                      THEN Append(tree_log, [name |-> name, read |-> original_content,
                                             written |-> content])
                      ELSE tree_log
       /\ tree_ret' = [tree_ret EXCEPT
                         !.modified_count = IF writes THEN @ + 1 ELSE @,
                         !.seen = @ \cup {name}]
    /\ tree_todo' = Tail(tree_todo)
    /\ UNCHANGED <<tree_cfg, tree_pc>>
    /\ UNCHANGED notTree

\* The loop is over: `return True`.
TocReturn ==
    /\ tree_pc = "loop" /\ tree_todo = << >>
    /\ tree_pc' = "done"
    /\ tree_ret' = [tree_ret EXCEPT !.result = "True"]
    /\ UNCHANGED <<tree_cfg, tree_files, tree_todo, tree_log>>
    /\ UNCHANGED notTree

NextTocCleaner ==
    \/ TocExecute
    \/ TocProcessFile
    \/ TocReturn

SpecTocCleaner == InitTocCleaner /\ [][NextTocCleaner]_vars

\* Some removal pattern matches the content of the file.
SomePatternMatches(name, L) ==
    \/ remove_table_of_contents(L) # L
    \/ remove_config_param_reference_toc(L) # L
    \/ remove_navigation_breadcrumbs(L) # L
    \/ IsProtocolFile(name) /\ remove_protocol_toc(L) # L

\* C23: TocCleaner writes a file back only with a content that differs from
\* the content read; a file no removal pattern matches is never written;
\* modified_count is the number of files written and never exceeds
\* total_count; and an error on one file does not stop the others: when
\* execute has returned, every file was visited and every file that has no
\* error and that the patterns change holds its cleaned content.
C23_WritesOnlyChangedContent ==
    /\ \A k \in DOMAIN tree_log :
          /\ tree_log[k].written # tree_log[k].read
          /\ SomePatternMatches(tree_log[k].name, tree_log[k].read)
          /\ \A j \in DOMAIN tree_log : tree_log[j].name = tree_log[k].name => j = k
    /\ tree_ret.modified_count = Len(tree_log)
    /\ tree_ret.modified_count <= tree_ret.total_count
    /\ (tree_pc = "done" /\ tree_cfg.content_exists) =>
          /\ tree_ret.result = "True"
          /\ tree_ret.seen = Range(TocFiles)
          /\ \A name \in Range(TocFiles) :
                LET written == \E k \in DOMAIN tree_log : tree_log[k].name = name IN
                /\ (tree_cfg.errors[name] = "none" /\ written)
                      => \E k \in DOMAIN tree_log :
                            /\ tree_log[k].name = name
                            /\ tree_files[name] = CleanedContent(name, tree_log[k].read)
                /\ (tree_cfg.errors[name] = "none" /\ ~written)
                      => ~SomePatternMatches(name, tree_files[name])
                /\ tree_cfg.errors[name] = "read" => ~written

\* The first file could not be read, the second was cleaned and written, and
\* execute returned True with one file modified out of two.
C23_Witness ==
    /\ tree_pc = "done"
    /\ tree_cfg.content_exists
    /\ tree_cfg.errors["intro.md"] = "read"
    /\ tree_cfg.errors["protocol.md"] = "none"
    /\ Len(tree_log) = 1
    /\ tree_log[1].name = "protocol.md"
    /\ tree_log[1].written = <<TextLine, TextLine>>
    /\ tree_ret.modified_count = 1
    /\ tree_ret.total_count = 2

----------------------------------------------------------------------------
(***************************************************************************)
(* SpecRedirects: PostProcessStage._create_doc_redirects and               *)
(* _generate_shadow_files (src/workflow/stages.py), run and run again      *)
(*                                                                         *)
(* A path is the sequence of its components below content/en; the tree is  *)
(* its directories and its files with their content.                      *)
(***************************************************************************)
\* Bound: the number of runs of _create_doc_redirects on one output tree.
MaxRedirectRuns == 2

\* The digits of the version identifiers used as directory names.
VersionDigits ==
    "39" :> <<3, 9>> @@ "40" :> <<4, 0>> @@ "082" :> <<0, 8, 2>>

\* version_pattern.match(item.name): the name starts with a digit
IsVersionName(name) == name \in DOMAIN VersionDigits

\* The entries content/en can have: version directories and another one.
ContentEntries == {"39", "40", "082", "blog"}

\* A version's streams subtree: its directories and its files, relative to
\* <version>/streams.
StreamsDirs == { << >>, <<"developer-guide">>, <<"upgrade">> }

StreamsFiles ==
    { <<"introduction.md">>, <<"logo.png">>,
      <<"developer-guide", "dsl.md">>,
      <<"developer-guide", "architecture.html">> }

\* file.endswith(".md") or file.endswith(".html")
IsShadowed(rel) ==
    rel[Len(rel)] \in {"introduction.md", "dsl.md", "architecture.html"}

\* redirect_content
RedirectContent == "doc-redirect"

\* The directory path and its parents (mkdir(parents=True, exist_ok=True)).
Prefixes(path) == { SubSeq(path, 1, k) : k \in 1..Len(path) }

\* parse_version: the key max() orders the versions by.
parse_version(v) ==
    IF v[1] = 0
    THEN IF Len(v) = 3 THEN <<0, v[2], v[3]>>
         ELSE IF Len(v) = 4 THEN <<0, 10 * v[2] + v[3], v[4]>>
         ELSE <<0, 0, 0>>
    ELSE IF Len(v) = 2 THEN <<v[1], v[2], 0>>
    ELSE <<0, 0, 0>>

\* Python's order of tuples of three numbers.
TripleLess(a, b) ==
    \/ a[1] < b[1]
    \/ a[1] = b[1] /\ a[2] < b[2]
    \/ a[1] = b[1] /\ a[2] = b[2] /\ a[3] < b[3]

\* max(processed_versions, key=parse_version): the position of the first
\* version no other one's key is above.
LatestIndex(versions) ==
    CHOOSE k \in DOMAIN versions :
       /\ \A j \in DOMAIN versions :
             ~TripleLess(parse_version(versions[k]), parse_version(versions[j]))
       /\ \A j \in 1..(k - 1) :
             TripleLess(parse_version(versions[j]), parse_version(versions[k]))

\* `if not target_file.exists():`
TargetIsFreeAlways(fs, target) == TRUE

TargetIsFree(fs, target) ==
    target \notin DOMAIN fs.files /\ target \notin fs.dirs

\* The stubs _generate_shadow_files writes for source_dir under
\* target_base_dir, in the tree fs.
ShadowStubs(fs, source_dir, target_base_dir) ==
    { target_base_dir \o rel : rel \in
        { r \in StreamsFiles :
            /\ source_dir \o r \in DOMAIN fs.files
            /\ IsShadowed(r)
            /\ TargetIsFree(fs, target_base_dir \o r) } }

\* The tree after the given stubs were written and the directories made.
WithStubs(fs, made, stubs) ==
    [dirs  |-> fs.dirs \cup made,
     files |-> [p \in DOMAIN fs.files \cup stubs |->
                  IF p \in stubs THEN RedirectContent ELSE fs.files[p]]]

\* The directories _generate_shadow_files makes: the mirror of every
\* directory os.walk visits.
ShadowDirs(fs, source_dir, target_base_dir) ==
    UNION { Prefixes(target_base_dir \o d) :
              d \in { r \in StreamsDirs : source_dir \o r \in fs.dirs } }

generate_shadow_files(fs, source_dir, target_base_dir) ==
    WithStubs(fs, ShadowDirs(fs, source_dir, target_base_dir),
              ShadowStubs(fs, source_dir, target_base_dir))

\* One iteration of `for item in content_dir.iterdir()` on a version
\* directory: documentation/, its _index.md and the shadow of streams.
AfterVersion(fs, version) ==
    LET doc_dir == <<version, "documentation">>
        index_file == doc_dir \o <<"_index.md">>
        with_index ==
           WithStubs(fs, {doc_dir},
                     IF TargetIsFree(fs, index_file) THEN {index_file} ELSE {})
    IN IF <<version, "streams">> \in fs.dirs
       THEN generate_shadow_files(with_index, <<version, "streams">>,
                                  doc_dir \o <<"streams">>)
       ELSE with_index

\* The output tree ProcessDocVersion left: every version with its _index.md
\* and, for the versions that have one, the streams section.
ContentTree(versions, with_streams, others) ==
    LET dirs == { <<e>> : e \in versions \cup others }
                \cup UNION { { <<v, "streams">> \o d : d \in StreamsDirs }
                             : v \in with_streams }
        files == { <<v, "_index.md">> : v \in versions }
                 \cup UNION { { <<v, "streams">> \o r : r \in StreamsFiles }
                              : v \in with_streams }
    IN [dirs |-> dirs, files |-> [p \in files |-> "content"]]

\* Files that can exist at shadow paths before the first run.
ExistingCandidates ==
    { <<"39", "documentation", "_index.md">>,
      <<"39", "documentation", "streams", "introduction.md">>,
      <<"documentation", "streams", "developer-guide", "dsl.md">> }

WithExisting(fs, existing) ==
    [dirs  |-> fs.dirs \cup UNION { Prefixes(SubSeq(p, 1, Len(p) - 1)) : p \in existing },
     files |-> [p \in DOMAIN fs.files \cup existing |->
                  IF p \in existing THEN "existing" ELSE fs.files[p]]]

\* The orders iterdir can list a set of entries in.
Orders(S) ==
    { o \in [1..Cardinality(S) -> S] : \A i, j \in DOMAIN o : o[i] = o[j] => i = j }

InitRedirects ==
    /\ \E versions \in (SUBSET {"39", "40"}) \ {{}},
          others \in SUBSET {"blog"},
          existing \in SUBSET ExistingCandidates :
       \E with_streams \in SUBSET versions,
          listing \in Orders(versions \cup others) :
          /\ (\A p \in existing : p[1] \in versions \cup {"documentation"})
          /\ tree_files = WithExisting(ContentTree(versions, with_streams, others),
                                       existing)
          /\ tree_cfg = [listing |-> listing, initial |-> tree_files]
    /\ tree_pc = "call"
    /\ tree_todo = << >>
    /\ tree_log = << >>
    /\ tree_ret = [processed_versions |-> << >>, runs |-> 0,
                   after_first |-> [dirs |-> {}, files |-> << >>],
                   log_first |-> 0, result |-> "none"]
    /\ IdleWorkflow /\ IdlePreDir /\ IdlePreFile /\ IdlePost /\ IdleSpecial
    /\ IdleSteps /\ IdleContext /\ IdleBlog

\* The writes that took fs to fs2, as log entries.
NewFiles(fs, fs2) == SeqOf((DOMAIN fs2.files) \ (DOMAIN fs.files))

\* _create_doc_redirects is called: the listing of content/en.
RedirectsCall ==
    /\ tree_pc = "call"
    /\ tree_ret.runs < MaxRedirectRuns
    /\ tree_pc' = "loop"
    /\ tree_todo' = tree_cfg.listing
    /\ tree_ret' = [tree_ret EXCEPT !.processed_versions = << >>,
                                    !.result = "none"]
    /\ UNCHANGED <<tree_cfg, tree_files, tree_log>>
    /\ UNCHANGED notTree

\* One iteration of `for item in content_dir.iterdir()`.
RedirectsItem ==
    /\ tree_pc = "loop" /\ tree_todo # << >>
    /\ LET item == Head(tree_todo) IN
       IF <<item>> \in tree_files.dirs /\ IsVersionName(item)
       THEN /\ tree_files' = AfterVersion(tree_files, item)
            /\ tree_log' = tree_log \o NewFiles(tree_files, tree_files')
            /\ tree_ret' = [tree_ret EXCEPT !.processed_versions = Append(@, item)]
       ELSE UNCHANGED <<tree_files, tree_log, tree_ret>>
    /\ tree_todo' = Tail(tree_todo)
    /\ UNCHANGED <<tree_cfg, tree_pc>>
    /\ UNCHANGED notTree

\* The version the global mirror is made from.
LatestVersion(processed_versions) ==
    processed_versions[
        LatestIndex([k \in DOMAIN processed_versions |->
                        VersionDigits[processed_versions[k]]])]

\* After the loop: the global documentation/streams mirror of the latest
\* version, and `return True`.
RedirectsGlobal ==
    /\ tree_pc = "loop" /\ tree_todo = << >>
    /\ LET pv == tree_ret.processed_versions
           latest_source_streams ==
              IF pv = << >> THEN << >> ELSE <<LatestVersion(pv), "streams">>
       IN
       /\ tree_files' =
            IF pv # << >> /\ latest_source_streams \in tree_files.dirs
            THEN generate_shadow_files(tree_files, latest_source_streams,
                                       <<"documentation", "streams">>)
            ELSE tree_files
       /\ tree_log' = tree_log \o NewFiles(tree_files, tree_files')
       /\ tree_ret' = [tree_ret EXCEPT
                         !.result = "True",
                         !.runs = @ + 1,
                         !.after_first = IF tree_ret.runs = 0 THEN tree_files' ELSE @,
                         !.log_first = IF tree_ret.runs = 0 THEN Len(tree_log') ELSE @]
    /\ tree_pc' = "call"
    /\ UNCHANGED <<tree_cfg, tree_todo>>
    /\ UNCHANGED notTree

NextRedirects ==
    \/ RedirectsCall
    \/ RedirectsItem
    \/ RedirectsGlobal

SpecRedirects == InitRedirects /\ [][NextRedirects]_vars

\* The versions of the listing that are version directories with streams.
MirroredVersions ==
    { v \in Range(tree_cfg.listing) :
        IsVersionName(v) /\ <<v, "streams">> \in tree_cfg.initial.dirs }

\* C24: redirect generation never overwrites or changes an existing file:
\* every file of the tree before the first run keeps its content; every
\* write is a redirect stub at a path where nothing existed (no path is
\* written twice); when a run has returned, every .md/.html file of a
\* version's streams subtree has a file at the mirrored path under the
\* version's documentation directory, every directory of the subtree has its
\* mirror, and other files have none; and a second run changes nothing.
C24_RedirectsNeverOverwrite ==
    /\ \A p \in DOMAIN tree_cfg.initial.files :
          p \in DOMAIN tree_files.files
             /\ tree_files.files[p] = tree_cfg.initial.files[p]
    /\ \A k \in DOMAIN tree_log :
          /\ tree_log[k] \notin DOMAIN tree_cfg.initial.files
          /\ tree_files.files[tree_log[k]] = RedirectContent
          /\ \A j \in DOMAIN tree_log : tree_log[j] = tree_log[k] => j = k
    /\ \A p \in (DOMAIN tree_files.files) \ (DOMAIN tree_cfg.initial.files) :
          \E k \in DOMAIN tree_log : tree_log[k] = p
    /\ tree_ret.runs >= 1 =>
          \A v \in MirroredVersions :
             /\ \A r \in StreamsFiles :
                   <<v, "documentation", "streams">> \o r \in DOMAIN tree_files.files
                      <=> IsShadowed(r)
             /\ \A d \in StreamsDirs :
                   <<v, "documentation", "streams">> \o d \in tree_files.dirs
             /\ (tree_pc = "call" /\ v = LatestVersion(tree_ret.processed_versions))
                   => \A r \in { x \in StreamsFiles : IsShadowed(x) } :
                         <<"documentation", "streams">> \o r
                            \in DOMAIN tree_files.files
    /\ tree_ret.runs >= 1 =>
          /\ tree_files.dirs = tree_ret.after_first.dirs
          /\ tree_files.files = tree_ret.after_first.files
          /\ Len(tree_log) = tree_ret.log_first

\* A second run has returned on a tree where a file existed at a shadow path
\* before the first run: it still holds its content, and the sibling stubs
\* were written in the first run.
C24_Witness ==
    /\ tree_ret.runs = 2
    /\ <<"39", "documentation", "streams", "introduction.md">>
          \in DOMAIN tree_cfg.initial.files
    /\ tree_files.files[<<"39", "documentation", "streams", "introduction.md">>]
          = "existing"
    /\ tree_files.files[<<"39", "documentation", "streams", "developer-guide", "dsl.md">>]
          = RedirectContent
    /\ <<"documentation", "streams", "introduction.md">> \in DOMAIN tree_files.files

----------------------------------------------------------------------------
(***************************************************************************)
(* SpecLatestVersion: the version _create_doc_redirects takes for the      *)
(* global mirror, for version identifiers of 2 to 4 digits                 *)
(* (src/workflow/stages.py, src/workflow/processors/doc_version.py)        *)
(***************************************************************************)
\* Bound: the largest digit of a generated version identifier.
MaxDigit == 1

\* The version identifiers of 2 to 4 digits, each the sequence of its digits.
VersionIds == UNION { [1..n -> 0..MaxDigit] : n \in 2..4 }

\* The dotted version ProcessDocVersion puts in the version's title:
\* "0110" is 0.11.0, "082" is 0.8.2, "100" is 1.0.0, "39" is 3.9.
DottedVersion(v) ==
    IF Len(v) = 4 THEN <<v[1], 10 * v[2] + v[3], v[4]>>
    ELSE IF Len(v) = 3 THEN <<v[1], v[2], v[3]>>
    ELSE <<v[1], v[2], 0>>

InitLatestVersion ==
    /\ \E a, b \in VersionIds :
          tree_cfg = [listing |-> IF a = b THEN <<a>> ELSE <<a, b>>]
    /\ tree_files = << >>
    /\ tree_pc = "loop"
    /\ tree_todo = tree_cfg.listing
    /\ tree_log = << >>
    /\ tree_ret = [processed_versions |-> << >>, latest_version |-> << >>]
    /\ IdleWorkflow /\ IdlePreDir /\ IdlePreFile /\ IdlePost /\ IdleSpecial
    /\ IdleSteps /\ IdleContext /\ IdleBlog

\* One iteration of `for item in content_dir.iterdir()` on a version
\* directory: processed_versions.append(version).
LatestItem ==
    /\ tree_pc = "loop" /\ tree_todo # << >>
    /\ tree_ret' = [tree_ret EXCEPT
                      !.processed_versions = Append(@, Head(tree_todo))]
    /\ tree_todo' = Tail(tree_todo)
    /\ UNCHANGED <<tree_cfg, tree_files, tree_pc, tree_log>>
    /\ UNCHANGED notTree

\* latest_version = max(processed_versions, key=parse_version)
LatestGlobal ==
    /\ tree_pc = "loop" /\ tree_todo = << >>
    /\ tree_ret' = [tree_ret EXCEPT !.latest_version =
                      tree_ret.processed_versions[
                          LatestIndex(tree_ret.processed_versions)]]
    /\ tree_pc' = "done"
    /\ UNCHANGED <<tree_cfg, tree_files, tree_todo, tree_log>>
    /\ UNCHANGED notTree

NextLatestVersion ==
    \/ LatestItem
    \/ LatestGlobal

SpecLatestVersion == InitLatestVersion /\ [][NextLatestVersion]_vars

\* C25: the global mirror is generated from the most recent version present,
\* the versions ordered by the dotted version of their titles: no version
\* present has a dotted version above that of the version taken.
C25_GlobalMirrorFromMostRecent ==
    tree_pc = "done" =>
       \A k \in DOMAIN tree_ret.processed_versions :
          ~TripleLess(DottedVersion(tree_ret.latest_version),
                      DottedVersion(tree_ret.processed_versions[k]))

----------------------------------------------------------------------------
(***************************************************************************)
(* SpecRegistry: WorkflowStepRegistry (src/workflow/registry.py)           *)
(***************************************************************************)
\* Bound: the length of a requested list of step names.
MaxStepNames == 2

\* The two catalogs after _register_all_steps: step name -> function.
RegisteredPreProcessSteps ==
    "sanitize_html" :> "sanitize_input_html" @@
    "process_handlebars" :> "process_handlebars_templates" @@
    "process_ssi" :> "process_ssi_tags_with_hugo" @@
    "convert_to_md" :> "convert_html_to_md" @@
    "add_front_matter" :> "add_front_matter" @@
    "process_headings" :> "process_markdown_headings"

RegisteredPostProcessSteps ==
    "update_front_matter" :> "update_front_matter" @@
    "process_links" :> "process_markdown_links" @@
    "split_by_heading" :> "split_markdown_by_heading"

\* The default of get_post_process_steps.
DefaultPostProcessSteps ==
    << "update_front_matter", "process_links", "split_by_heading" >>

\* Names a caller may request or register.
RequestableNames ==
    {"sanitize_html", "process_headings", "update_front_matter",
     "split_by_heading", "custom", "no_such_step"}

StepNameLists == UNION { [1..n -> RequestableNames] : n \in 0..MaxStepNames }

\* A variant of the lookup that leaves unregistered names out.
RECURSIVE StepsSkippingUnknown(_, _)
StepsSkippingUnknown(catalog, step_names) ==
    IF step_names = << >> THEN [raised |-> FALSE, steps |-> << >>]
    ELSE LET rest == StepsSkippingUnknown(catalog, Tail(step_names)) IN
         IF Head(step_names) \notin DOMAIN catalog THEN rest
         ELSE [raised |-> FALSE,
               steps |-> <<catalog[Head(step_names)]>> \o rest.steps]

\* [catalog[name] for name in step_names]: the list, or a KeyError and no
\* list at all.
RECURSIVE StepsByName(_, _)
StepsByName(catalog, step_names) ==
    IF step_names = << >> THEN [raised |-> FALSE, steps |-> << >>]
    ELSE IF Head(step_names) \notin DOMAIN catalog
    THEN [raised |-> TRUE, steps |-> << >>]
    ELSE LET rest == StepsByName(catalog, Tail(step_names)) IN
         IF rest.raised THEN rest
         ELSE [raised |-> FALSE,
               steps |-> <<catalog[Head(step_names)]>> \o rest.steps]

\* A call: which catalog and what it held, whether step_names was given, the
\* names looked up, and the outcome.
StepCall(catalog, registered, omitted, step_names) ==
    [catalog |-> catalog, registered |-> registered, omitted |-> omitted,
     step_names |-> step_names,
     raised |-> StepsByName(registered, step_names).raised,
     steps |-> StepsByName(registered, step_names).steps]

InitRegistry ==
    /\ tree_files = [pre_process_steps |-> RegisteredPreProcessSteps,
                     post_process_steps |-> RegisteredPostProcessSteps]
    /\ tree_cfg = << >>
    /\ tree_pc = "constructed"
    /\ tree_todo = << >>
    /\ tree_log = << >>
    /\ tree_ret = StepCall("none", << >>, FALSE, << >>)
    /\ IdleWorkflow /\ IdlePreDir /\ IdlePreFile /\ IdlePost /\ IdleSpecial
    /\ IdleSteps /\ IdleContext /\ IdleBlog

\* register_pre_process_step(name, step_func)
RegisterPreProcessStep ==
    /\ \E name \in {"custom"} :
          /\ name \notin DOMAIN tree_files.pre_process_steps
          /\ tree_files' = [tree_files EXCEPT !.pre_process_steps =
                               @ @@ (name :> "custom_pre_step")]
    /\ UNCHANGED <<tree_cfg, tree_pc, tree_todo, tree_log, tree_ret>>
    /\ UNCHANGED notTree

\* register_post_process_step(name, step_func)
RegisterPostProcessStep ==
    /\ \E name \in {"custom"} :
          /\ name \notin DOMAIN tree_files.post_process_steps
          /\ tree_files' = [tree_files EXCEPT !.post_process_steps =
                               @ @@ (name :> "custom_post_step")]
    /\ UNCHANGED <<tree_cfg, tree_pc, tree_todo, tree_log, tree_ret>>
    /\ UNCHANGED notTree

\* get_pre_process_steps(step_names), step_names given or omitted
GetPreProcessSteps ==
    /\ \E omitted \in BOOLEAN, given \in StepNameLists :
          LET step_names == IF omitted THEN DefaultPreProcessSteps ELSE given IN
          /\ omitted => given = << >>
          /\ tree_ret' = StepCall("pre", tree_files.pre_process_steps,
                                  omitted, step_names)
    /\ UNCHANGED <<tree_cfg, tree_files, tree_pc, tree_todo, tree_log>>
    /\ UNCHANGED notTree

\* get_post_process_steps(step_names), step_names given or omitted
GetPostProcessSteps ==
    /\ \E omitted \in BOOLEAN, given \in StepNameLists :
          LET step_names == IF omitted THEN DefaultPostProcessSteps ELSE given IN
          /\ omitted => given = << >>
          /\ tree_ret' = StepCall("post", tree_files.post_process_steps,
                                  omitted, step_names)
    /\ UNCHANGED <<tree_cfg, tree_files, tree_pc, tree_todo, tree_log>>
    /\ UNCHANGED notTree

NextRegistry ==
    \/ RegisterPreProcessStep
    \/ RegisterPostProcessStep
    \/ GetPreProcessSteps
    \/ GetPostProcessSteps

SpecRegistry == InitRegistry /\ [][NextRegistry]_vars

\* What the catalog the last call looked in held at the call.
CalledCatalog == tree_ret.registered

\* C26: get_pre_process_steps and get_post_process_steps return exactly one
\* function per requested name, in the requested order (the documented
\* default order when the names are omitted), and raise a lookup error with
\* no partial list if a requested name is not registered in that catalog,
\* whatever the other catalog holds.
C26_OneStepPerNameOrLookupError ==
    tree_ret.catalog # "none" =>
       /\ tree_ret.omitted =>
             tree_ret.step_names =
                IF tree_ret.catalog = "pre"
                THEN << "sanitize_html", "process_handlebars", "process_ssi",
                        "convert_to_md", "add_front_matter", "process_headings" >>
                ELSE << "update_front_matter", "process_links", "split_by_heading" >>
       /\ IF \A k \in DOMAIN tree_ret.step_names :
                tree_ret.step_names[k] \in DOMAIN CalledCatalog
          THEN /\ ~tree_ret.raised
               /\ Len(tree_ret.steps) = Len(tree_ret.step_names)
               /\ \A k \in DOMAIN tree_ret.step_names :
                     tree_ret.steps[k] = CalledCatalog[tree_ret.step_names[k]]
          ELSE /\ tree_ret.raised
               /\ tree_ret.steps = << >>

\* A post-process lookup raised, with no list returned, on a name that is
\* registered in the pre-process catalog only, after a registered one.
C26_Witness ==
    /\ tree_ret.catalog = "post"
    /\ tree_ret.step_names = <<"update_front_matter", "sanitize_html">>
    /\ "sanitize_html" \in DOMAIN tree_files.pre_process_steps
    /\ tree_ret.raised
    /\ tree_ret.steps = << >>

----------------------------------------------------------------------------
(***************************************************************************)
(* A failing file inside an arrange section                                *)
(***************************************************************************)

\* C27: within an arrange-strategy section the failure of one declared file
\* does not stop the batch: when the section has returned, every declared
\* file that is present and readable has been processed and written.
C27_FileFailureDoesNotStopSection ==
    \A v \in DocVersions : \A k \in 1..Len(sections) :
       LET sec == sections[k]
           key == <<v, sec.name>>
       IN
       (sec.strategy = "arrange" /\ sec_ret[key] # "none") =>
          \A i \in 1..Len(sec.files) :
             interim[<<v, sec.files[i].src_file>>] = "ok"
                => OutFile(DestName(sec.files[i]), i) \in output[key].files

----------------------------------------------------------------------------
(***************************************************************************)
(* The body update_front_matter keeps                                      *)
(***************************************************************************)

\* The content without a comment that starts it (with the newlines after
\* the comment).
WithoutLeadingComment(s) ==
    LET j == IF s # << >> /\ s[1] = "<!--" THEN FirstAt(s, "-->", 2) ELSE 0
    IN IF j = 0 THEN s ELSE From(s, FirstNotAt(s, NL, j + 1))

\* The content without a metadata block that starts it (with the newlines
\* after the block).
WithoutLeadingFrontMatter(s) ==
    IF FrontMatterOpensAt(s, 1) /\ FrontMatterClose(s, 1) # 0
    THEN From(s, FirstNotAt(s, NL, FrontMatterClose(s, 1) + 4))
    ELSE s

\* The body of a document: what follows its leading comment block and its
\* leading metadata block (blank lines before them aside).
BodyOf(s) ==
    WithoutLeadingFrontMatter(WithoutLeadingComment(From(s, FirstNotAt(s, NL, 1))))

\* a is b with some elements left out.
RECURSIVE IsSubsequence(_, _)
IsSubsequence(a, b) ==
    IF a = << >> THEN TRUE
    ELSE IF b = << >> THEN FALSE
    ELSE IF Head(a) = Head(b) THEN IsSubsequence(Tail(a), Tail(b))
    ELSE IsSubsequence(a, Tail(b))

\* C28: update_front_matter removes only a leading comment block and a
\* leading metadata block: every (non-blank) line of the body after them
\* appears unchanged and in the same order in the output, comments and
\* "---" lines of the body included.
C28_BodyLinesKept ==
    Len(md_history) >= 2 =>
       IsSubsequence(NonBlankLines(SplitLines(BodyOf(md_history[1]))),
                     SplitLines(md_history[2]))

----------------------------------------------------------------------------
(***************************************************************************)
(* SpecEnhancement: StreamsEnhancementStage._do_execute                    *)
(* (src/workflow/stages.py)                                                *)
(***************************************************************************)
\* rules['doc_dirs']
EnhancementDocDirs == <<"39", "40">>

\* The transformations, in the order they are applied.
EnhancementTransforms ==
    << "_transform_youtube_to_carousel", "_transform_use_cases_to_cards",
       "_transform_code_to_tabs", "_remove_redundant_links" >>

\* The content of a version's streams/introduction.md after ProcessDocVersion.
IntroductionOf(version) == <<"introduction", version>>

\* The transformations applied to content in order, up to the one that
\* raises (None: none does): whether one raised, and the content reached.
RECURSIVE ApplyTransforms(_, _, _)
ApplyTransforms(content, transforms, raising) ==
    IF transforms = << >> THEN [raised |-> FALSE, content |-> content]
    ELSE IF Head(transforms) = raising
    THEN [raised |-> TRUE, content |-> content]
    ELSE ApplyTransforms(Append(content, Head(transforms)), Tail(transforms),
                         raising)

\* The `continue` of the except clause skips the write.
EnhancementWritesAnyway(raised) == TRUE

EnhancementWrites(raised) == ~raised

InitEnhancement ==
    /\ \E enabled \in {"absent", "True", "False"},
          versions \in { <<"*">>, <<"40">>, <<"40", "39">> },
          present \in SUBSET Range(EnhancementDocDirs),
          unreadable \in SUBSET Range(EnhancementDocDirs),
          testimonials \in {"absent", "ok", "corrupt"},
          raising \in [Range(EnhancementDocDirs) ->
                         {None, "_transform_youtube_to_carousel",
                          "_remove_redundant_links"}] :
          /\ unreadable \subseteq present
          /\ tree_cfg = [enabled |-> enabled, versions |-> versions,
                         unreadable |-> unreadable,
                         testimonials |-> testimonials, raising |-> raising]
          /\ tree_files = [v \in present |-> IntroductionOf(v)]
    /\ tree_pc = "execute"
    /\ tree_todo = << >>
    /\ tree_log = << >>
    /\ tree_ret = [success |-> TRUE, visited |-> << >>, raised |-> {},
                   aborted |-> FALSE, result |-> "none"]
    /\ IdleWorkflow /\ IdlePreDir /\ IdlePreFile /\ IdlePost /\ IdleSpecial
    /\ IdleSteps /\ IdleContext /\ IdleBlog

\* _do_execute up to the loop: the enabled test and the target versions.
EnhanceBegin ==
    /\ tree_pc = "execute"
    /\ IF tree_cfg.enabled = "False"
       THEN /\ tree_pc' = "done"
            /\ tree_ret' = [tree_ret EXCEPT !.result = "True"]
            /\ UNCHANGED tree_todo
       ELSE /\ tree_pc' = "loop"
            /\ tree_todo' = IF "*" \in Range(tree_cfg.versions)
                            THEN EnhancementDocDirs ELSE tree_cfg.versions
            /\ UNCHANGED tree_ret
    /\ UNCHANGED <<tree_cfg, tree_files, tree_log>>
    /\ UNCHANGED notTree

\* One iteration of `for version in target_versions`.
EnhanceVersion ==
    /\ tree_pc = "loop" /\ tree_todo # << >>
    /\ LET version == Head(tree_todo)
           seen == [tree_ret EXCEPT !.visited = Append(@, version)]
       IN
       IF version \notin DOMAIN tree_files
       THEN \* `if not streams_intro_file.exists(): continue`
            /\ tree_ret' = seen
            /\ tree_todo' = Tail(tree_todo)
            /\ UNCHANGED <<tree_files, tree_log, tree_pc>>
       ELSE IF version \in tree_cfg.unreadable \/ tree_cfg.testimonials = "corrupt"
       THEN \* open/read or json.load raises: the outer except clause
            /\ tree_ret' = [seen EXCEPT !.aborted = TRUE, !.result = "False"]
            /\ tree_pc' = "done"
            /\ UNCHANGED <<tree_files, tree_log, tree_todo>>
       ELSE LET r == ApplyTransforms(tree_files[version], EnhancementTransforms,
                                     tree_cfg.raising[version])
            IN
            /\ IF EnhancementWrites(r.raised)
               THEN /\ tree_files' = [tree_files EXCEPT ![version] = r.content]
                    /\ tree_log' = Append(tree_log, version)
               ELSE UNCHANGED <<tree_files, tree_log>>
            /\ tree_ret' = [seen EXCEPT
                              !.success = IF r.raised THEN FALSE ELSE @,
                              !.raised = IF r.raised THEN @ \cup {version} ELSE @]
            /\ tree_todo' = Tail(tree_todo)
            /\ UNCHANGED tree_pc
    /\ UNCHANGED tree_cfg
    /\ UNCHANGED notTree

\* `return success`
EnhanceReturn ==
    /\ tree_pc = "loop" /\ tree_todo = << >>
    /\ tree_pc' = "done"
    /\ tree_ret' = [tree_ret EXCEPT !.result =
                      IF tree_ret.success THEN "True" ELSE "False"]
    /\ UNCHANGED <<tree_cfg, tree_files, tree_todo, tree_log>>
    /\ UNCHANGED notTree

NextEnhancement ==
    \/ EnhanceBegin
    \/ EnhanceVersion
    \/ EnhanceReturn

SpecEnhancement == InitEnhancement /\ [][NextEnhancement]_vars

\* The versions the stage has to visit.
TargetVersions ==
    IF "*" \in Range(tree_cfg.versions) THEN EnhancementDocDirs
    ELSE tree_cfg.versions

\* C29: a version for which an enhancement transform raised keeps its
\* streams/introduction.md unmodified; the loop goes on after it (the stage
\* visits every target version unless reading a file aborts it); the stage
\* then returns False; a version without streams/introduction.md is skipped
\* without failure and without a write; and a disabled configuration returns
\* True with no version visited and nothing written.
C29_TransformFailureIsIsolated ==
    /\ \A v \in tree_ret.raised :
          /\ tree_files[v] = IntroductionOf(v)
          /\ \A k \in DOMAIN tree_log : tree_log[k] # v
          /\ tree_pc = "done" => tree_ret.result = "False"
    /\ \A k \in DOMAIN tree_log : tree_log[k] \in DOMAIN tree_files
    /\ (tree_pc = "done" /\ tree_cfg.enabled # "False" /\ ~tree_ret.aborted) =>
          /\ tree_ret.visited = TargetVersions
          /\ tree_ret.result = "False" <=> tree_ret.raised # {}
          /\ \A v \in DOMAIN tree_files :
                (v \in Range(TargetVersions) /\ v \notin tree_ret.raised) =>
                   tree_files[v] = IntroductionOf(v) \o EnhancementTransforms
    /\ (tree_pc = "done" /\ tree_cfg.enabled = "False") =>
          /\ tree_ret.result = "True"
          /\ tree_ret.visited = << >>
          /\ tree_log = << >>

\* The first target version's transform raised and its file is unmodified,
\* the next version was still enhanced and written, a version without the
\* file was not, and the stage returned False.
C29_Witness ==
    /\ tree_pc = "done"
    /\ tree_cfg.versions = <<"40", "39">>
    /\ tree_ret.raised = {"40"}
    /\ tree_files["40"] = IntroductionOf("40")
    /\ tree_log = <<"39">>
    /\ tree_files["39"] = IntroductionOf("39") \o EnhancementTransforms
    /\ tree_ret.result = "False"

----------------------------------------------------------------------------
(***************************************************************************)
(* SpecSync: SyncManager (src/sync_to_hugo.py)                             *)
(*                                                                         *)
(* A directory of either tree is absent, a plain file, or a directory      *)
(* holding files: a set of <<name, content>> pairs.                        *)
(***************************************************************************)
Absent == [kind |-> "absent", files |-> {}]
PlainFile == [kind |-> "file", files |-> {}]
Directory(files) == [kind |-> "dir", files |-> files]

\* The directories the operations work on: a documentation version
\* (replace strategy) and blog (merge strategy).
SyncUnits == {"39", "blog"}

SyncStrategy(unit) == IF unit = "39" THEN "replace" ELSE "merge"

SourceStates ==
    { Absent, PlainFile, Directory({<<"a.md", "new">>}),
      Directory({<<"a.md", "new">>, <<"b.md", "new">>}) }

DestStates ==
    { Absent, Directory({}), Directory({<<"a.md", "old">>}),
      Directory({<<"c.md", "old">>}) }

\* The calls that can raise.
SyncFailures == {"rmtree", "copytree", "copy2"}

\* `if not self.dry_run:` in front of every call that changes the file
\* system.
MutatesAlways(dry_run) == TRUE

Mutates(dry_run) == ~dry_run

\* replace_directory(src, dst): the destination and the statistics after it.
replace_directory(dry_run, failing, src, dst, stats) ==
    IF src.kind # "dir" THEN [dst |-> dst, stats |-> stats]
    ELSE IF dst.kind # "absent" /\ Mutates(dry_run) /\ "rmtree" \in failing
    THEN [dst |-> dst, stats |-> [stats EXCEPT !.errors = @ + 1]]
    ELSE LET deleted == dst.kind # "absent" /\ Mutates(dry_run)
             s1 == IF deleted THEN [stats EXCEPT !.deleted_dirs = @ + 1]
                   ELSE stats
             d1 == IF deleted THEN Absent ELSE dst
         IN IF ~Mutates(dry_run) THEN [dst |-> d1, stats |-> s1]
            ELSE IF "copytree" \in failing
            THEN [dst |-> d1, stats |-> [s1 EXCEPT !.errors = @ + 1]]
            ELSE [dst |-> Directory(src.files),
                  stats |-> [s1 EXCEPT !.replaced_dirs = @ + 1]]

\* The files of dst after the files of src were copied over them.
CopiedOver(src_files, dst_files) ==
    src_files \cup { f \in dst_files : \A g \in src_files : g[1] # f[1] }

\* merge_directory(src, dst): the destination and the statistics after it.
merge_directory(dry_run, failing, src, dst, stats) ==
    IF src.kind # "dir" THEN [dst |-> dst, stats |-> stats]
    ELSE LET made == IF dst.kind = "absent" /\ Mutates(dry_run)
                     THEN Directory({}) ELSE dst
             n == Cardinality(src.files)
             copies == Mutates(dry_run) /\ "copy2" \notin failing
             fails == Mutates(dry_run) /\ "copy2" \in failing
         IN [dst |-> IF copies /\ n > 0
                     THEN Directory(CopiedOver(src.files, made.files))
                     ELSE made,
             stats |-> [stats EXCEPT
                          !.merged_dirs = @ + 1,
                          !.copied_files = IF fails THEN @ ELSE @ + n,
                          !.errors = IF fails THEN @ + n ELSE @]]

InitSync ==
    /\ \E dry_run \in BOOLEAN, failing \in SUBSET SyncFailures,
          roots \in {"both", "no source", "no destination"},
          source \in [SyncUnits -> SourceStates],
          dest \in [SyncUnits -> DestStates] :
          /\ tree_cfg = [dry_run |-> dry_run, failing |-> failing,
                         roots |-> roots, initial |-> dest]
          /\ tree_files = [source |-> source, dest |-> dest]
    /\ tree_pc = "run"
    /\ tree_todo = {}
    /\ tree_log = << >>
    /\ tree_ret = [stats |-> [replaced_dirs |-> 0, merged_dirs |-> 0,
                              copied_files |-> 0, deleted_dirs |-> 0,
                              errors |-> 0],
                   exit_code |-> -1]
    /\ IdleWorkflow /\ IdlePreDir /\ IdlePreFile /\ IdlePost /\ IdleSpecial
    /\ IdleSteps /\ IdleContext /\ IdleBlog

\* run(): both roots must exist, or sys.exit(1).
SyncRun ==
    /\ tree_pc = "run"
    /\ IF tree_cfg.roots = "both"
       THEN /\ tree_pc' = "sync"
            /\ tree_todo' = SyncUnits
            /\ UNCHANGED tree_ret
       ELSE /\ tree_pc' = "exited"
            /\ tree_ret' = [tree_ret EXCEPT !.exit_code = 1]
            /\ UNCHANGED tree_todo
    /\ UNCHANGED <<tree_cfg, tree_files, tree_log>>
    /\ UNCHANGED notTree

\* One replace or merge operation, the operations taken in any order.
SyncOperation ==
    /\ tree_pc = "sync"
    /\ \E unit \in tree_todo :
          LET src == tree_files.source[unit]
              dst == tree_files.dest[unit]
              r == IF SyncStrategy(unit) = "replace"
                   THEN replace_directory(tree_cfg.dry_run, tree_cfg.failing,
                                          src, dst, tree_ret.stats)
                   ELSE merge_directory(tree_cfg.dry_run, tree_cfg.failing,
                                        src, dst, tree_ret.stats)
          IN
          /\ tree_files' = [tree_files EXCEPT !.dest[unit] = r.dst]
          /\ tree_ret' = [tree_ret EXCEPT !.stats = r.stats]
          /\ tree_log' = Append(tree_log, unit)
          /\ tree_todo' = tree_todo \ {unit}
    /\ UNCHANGED <<tree_cfg, tree_pc>>
    /\ UNCHANGED notTree

\* The summary, and sys.exit(1) if there were errors.
SyncExit ==
    /\ tree_pc = "sync" /\ tree_todo = {}
    /\ tree_pc' = "exited"
    /\ tree_ret' = [tree_ret EXCEPT !.exit_code =
                      IF tree_ret.stats.errors > 0 THEN 1 ELSE 0]
    /\ UNCHANGED <<tree_cfg, tree_files, tree_todo, tree_log>>
    /\ UNCHANGED notTree

NextSync ==
    \/ SyncRun
    \/ SyncOperation
    \/ SyncExit

SpecSync == InitSync /\ [][NextSync]_vars

\* C30: with dry_run set, nothing under the destination root is created,
\* deleted or modified: every directory of the destination is what it was
\* before the run, after any number of replace and merge operations.
C30_DryRunChangesNothing ==
    tree_cfg.dry_run => tree_files.dest = tree_cfg.initial

\* A dry run has ended after a replace over an existing destination
\* directory and a merge into a destination that lacks the directory: both
\* operations reported their work and the destination is unchanged.
C30_Witness ==
    /\ tree_cfg.dry_run
    /\ tree_pc = "exited"
    /\ Len(tree_log) = 2
    /\ tree_files.source["39"] = Directory({<<"a.md", "new">>})
    /\ tree_cfg.initial["39"] = Directory({<<"a.md", "old">>})
    /\ tree_files.source["blog"].kind = "dir"
    /\ tree_cfg.initial["blog"] = Absent
    /\ tree_ret.stats.copied_files > 0
    /\ tree_files.dest = tree_cfg.initial

====
